---- MODULE Spec2Model ----
(***************************************************************************)
(* Model of the download core of idm-clone: the dynamic segment manager    *)
(* (src/core/SegmentManager.cpp) and the per-download orchestrator and     *)
(* connection workers (src/core/DownloadEngine.cpp).                       *)
(*                                                                         *)
(* Byte positions are plain integers in bytes; the program constants keep  *)
(* their source values.  Sequences are 1-based, so an index result of 0    *)
(* stands for the source's -1 ("not found").                               *)
(***************************************************************************)
EXTENDS Integers, Sequences, FiniteSets, TLC

\* ---- program constants (src/stdafx.h) ----
BUFFER_SIZE == 65536
MIN_SEGMENT_SIZE == 65536
MAX_CONNECTIONS == 32

\* ---- bounds of the model ----
\* number of connection ids (workers) a download may use
NumConns == 2
\* size of the downloaded file in bytes (one byte short of 3 buffers: a file
\* that is split once)
MaxFileSize == 196607
\* largest file size a directly driven segment manager is initialised with
\* (one byte short of 5 buffers: a file that is split twice)
MaxMapSize == 327679
\* retry ceiling of an entry (entry.maxRetries)
MaxRetries == 2
\* largest attempt number and largest base delay GetRetryDelay is called with
MaxAttempt == 12
MaxBaseDelay == 6
\* largest speed limit in bytes per second, number of threads calling the
\* limiter, largest byte count asked for in one call
MaxRate == 2
NumCallers == 2
MaxRequest == 2
\* number of entry ids of the database, and the number of journal records
\* after which no further entry is added before a flush
MaxEntries == 1
MaxJournal == 1
MaxName == 2
NumThreads == 2
NumObservers == 2

Conns == 0 .. (NumConns - 1)
FileSizes == {MaxMapSize, MaxMapSize - 30000}
\* lengths of the blocks a chunk callback writes (a full buffer, a short read)
ChunkSizes == {BUFFER_SIZE, 50000}
\* byte counts passed to UpdateProgress by a direct caller
ProgressSizes == ChunkSizes \cup {0}

NoConn == -1

VARIABLES
    segs,               \* m_segments: sequence of Segment records
    m_fileSize,
    m_maxConnections,
    m_minSegmentSize,
    m_nextSegmentId,
    lastCall,           \* the last RequestSegment call and what it returned
    entry,              \* ActiveDownload::entry, the orchestrator's copy of the entry
    dbEntry,            \* the record of the entry in Database::m_entries
    active,             \* the id is in m_activeDownloads
    cancelled,          \* ActiveDownload::cancelled
    paused,             \* ActiveDownload::paused
    opc,                \* position of the DownloadWorker (orchestrator) thread
    wpc,                \* position of each ConnectionWorker thread
    assign,             \* each worker's splitResult
    retryCount,         \* each worker's retryCount
    resp,               \* HTTP status of the response each worker is streaming
    delivered,          \* bytes the server has delivered on each worker's stream
    writtenBy,          \* byte intervals each worker has written in its current range request
    written,            \* byte intervals of the partial file that were ever written
    segFile,            \* content of the .segstate snapshot file, NoFile when absent
    partialExists,      \* the .partial file exists
    server,             \* what the server answers to a probe
    acct,               \* the last accounting boundary (notification or snapshot write)
    startInfo,          \* what this start found and did: the entry's cached ETag, the
                        \* files on disk, the probe's answer, whether the snapshot was
                        \* loaded, the number of ConnectionWorker threads launched
    errorEvents,        \* OnDownloadError notifications emitted since the start
    lastFailed,         \* the segment of the failed attempt each worker is about to retry
    limiter,            \* SpeedLimiter: m_limitBps, m_burstCapacity, m_tokens, m_lastRefill
    limEnv,             \* the clock, the callers inside RequestBytes, the bytes admitted
    db,                 \* Database: m_entries, m_dirty, the database file, the journal
    call,               \* a call of a static function: arguments and result
    fs,                 \* the download directory as FileAssembler::Finalize sees it
    rm,                 \* progress of a RemoveDownload(id, deleteFiles = true) call
    mx,                 \* threads, the mutexes they hold and what they are doing
    lk                  \* per engine thread: the operation it runs and its position in it

\* ---- Segment helpers (SegmentManager.h) ----
RemainingBytes(s) == s.endByte - s.currentPos + 1
DownloadedBytes(s) == s.currentPos - s.startByte

NewSegment(id, start, end) ==
    [id |-> id, startByte |-> start, endByte |-> end, currentPos |-> start,
     connectionId |-> NoConn, status |-> "Pending"]

\* Initialize for a known file size (fileSize > 0, the only sizes the model's
\* server reports): one Pending segment over the whole file
InitialSegments(fileSize) == << NewSegment(0, 0, fileSize - 1) >>

RECURSIVE SumDownloaded(_)
SumDownloaded(S) ==
    IF S = << >> THEN 0 ELSE DownloadedBytes(Head(S)) + SumDownloaded(Tail(S))

GetTotalDownloaded(S) == SumDownloaded(S)

IsComplete(S) == (\A i \in DOMAIN S : S[i].status = "Complete") /\ S # << >>

GetActiveConnectionCount(S) ==
    Cardinality({i \in DOMAIN S : S[i].status = "Active" /\ S[i].connectionId >= 0})

\* faulty variant: a segment with status Error is passed over
FindPendingSegment_PendingOnly(S) ==
    LET cand == {i \in DOMAIN S : S[i].status = "Pending"}
    IN IF cand = {} THEN 0 ELSE CHOOSE i \in cand : \A j \in cand : i <= j
\* first Pending or Error segment in list order, 0 when there is none
FindPendingSegment(S) ==
    LET cand == {i \in DOMAIN S : S[i].status \in {"Pending", "Error"}}
    IN IF cand = {} THEN 0 ELSE CHOOSE i \in cand : \A j \in cand : i <= j

\* first Active segment with the strictly largest remaining bytes (> 0)
FindLargestActiveSegment(S) ==
    LET cand == {i \in DOMAIN S : S[i].status = "Active" /\ RemainingBytes(S[i]) > 0}
    IN IF cand = {} THEN 0
       ELSE CHOOSE i \in cand : \A j \in cand :
                \/ RemainingBytes(S[j]) < RemainingBytes(S[i])
                \/ (RemainingBytes(S[j]) = RemainingBytes(S[i]) /\ i <= j)

\* the split point SplitSegment computes for segment s
SplitPoint(s, minSeg) ==
    LET raw == s.currentPos + (RemainingBytes(s) \div 2)
        aligned == (raw \div BUFFER_SIZE) * BUFFER_SIZE
    IN IF aligned <= s.currentPos THEN s.currentPos + minSeg ELSE aligned

\* faulty variant: the parent keeps the split point itself
ParentEndAfterSplit_Inclusive(p) == p
\* the end the parent keeps after a split at p
ParentEndAfterSplit(p) == p - 1

\* SplitSegment(idx): [ok, segs, nextId, newId]
SplitSegment(S, idx, minSeg, nextId) ==
    LET fail == [ok |-> FALSE, segs |-> S, nextId |-> nextId, newId |-> -1]
    IN IF idx < 1 \/ idx > Len(S) THEN fail
       ELSE LET parent == S[idx]
                p == SplitPoint(parent, minSeg)
            IN IF RemainingBytes(parent) < minSeg * 2 THEN fail
               ELSE IF p > parent.endByte - minSeg THEN fail
               ELSE LET newSeg == NewSegment(nextId, p, parent.endByte)
                        trimmed == [parent EXCEPT !.endByte = ParentEndAfterSplit(p)]
                    IN [ok |-> TRUE,
                        segs |-> SubSeq(S, 1, idx - 1) \o << trimmed, newSeg >>
                                 \o SubSeq(S, idx + 1, Len(S)),
                        nextId |-> nextId + 1,
                        newId |-> nextId]

NoResult == [success |-> FALSE, newSegmentId |-> -1, newStart |-> 0, newEnd |-> 0,
             parentSegmentId |-> -1]

\* index of the segment with the given id, 0 when absent
IndexOfId(S, id) ==
    LET cand == {i \in DOMAIN S : S[i].id = id}
    IN IF cand = {} THEN 0 ELSE CHOOSE i \in cand : \A j \in cand : i <= j

\* faulty variant: one assignment too many is let through
SlotsExhausted_OffByOne(S, maxConn) == GetActiveConnectionCount(S) > maxConn
\* the guard of RequestSegment: no slot is free
SlotsExhausted(S, maxConn) == GetActiveConnectionCount(S) >= maxConn

\* RequestSegment(connectionId): [segs, nextId, result]
RequestSegment(S, maxConn, minSeg, nextId, c) ==
    LET none == [segs |-> S, nextId |-> nextId, result |-> NoResult]
        pendingIdx == FindPendingSegment(S)
        largestIdx == FindLargestActiveSegment(S)
    IN IF SlotsExhausted(S, maxConn) THEN none
       ELSE IF pendingIdx > 0 THEN
            [segs |-> [S EXCEPT ![pendingIdx].connectionId = c,
                                ![pendingIdx].status = "Active"],
             nextId |-> nextId,
             result |-> [success |-> TRUE, newSegmentId |-> S[pendingIdx].id,
                         newStart |-> S[pendingIdx].currentPos,
                         newEnd |-> S[pendingIdx].endByte,
                         parentSegmentId |-> -1]]
       ELSE IF largestIdx > 0 /\ RemainingBytes(S[largestIdx]) >= minSeg * 2 THEN
            LET sp == SplitSegment(S, largestIdx, minSeg, nextId)
                k == IndexOfId(sp.segs, sp.newId)
            IN IF sp.ok /\ k > 0 THEN
                   [segs |-> [sp.segs EXCEPT ![k].connectionId = c,
                                             ![k].status = "Active"],
                    nextId |-> sp.nextId,
                    result |-> [success |-> TRUE, newSegmentId |-> sp.newId,
                                newStart |-> sp.segs[k].startByte,
                                newEnd |-> sp.segs[k].endByte,
                                parentSegmentId |-> S[largestIdx].id]]
               ELSE none
       ELSE none

\* faulty variant: the cursor of a finished segment is not clamped to end + 1
UpdateProgress_NoClamp(S, id, n) ==
    LET k == IndexOfId(S, id)
    IN IF k = 0 THEN S
       ELSE LET pos == S[k].currentPos + n
            IN IF pos > S[k].endByte
               THEN [S EXCEPT ![k].currentPos = pos, ![k].status = "Complete"]
               ELSE [S EXCEPT ![k].currentPos = pos]
\* UpdateProgress(segmentId, bytesWritten): the new segment list
UpdateProgress(S, id, n) ==
    LET k == IndexOfId(S, id)
    IN IF k = 0 THEN S
       ELSE LET pos == S[k].currentPos + n
            IN IF pos > S[k].endByte
               THEN [S EXCEPT ![k].currentPos = S[k].endByte + 1,
                              ![k].status = "Complete"]
               ELSE [S EXCEPT ![k].currentPos = pos]

\* faulty variant: the cursor is moved to the end and the status is left as it was
MarkComplete_KeepsStatus(S, id) ==
    LET k == IndexOfId(S, id)
    IN IF k = 0 THEN S
       ELSE [S EXCEPT ![k].currentPos = S[k].endByte + 1]
\* MarkComplete(segmentId): the new segment list
MarkComplete(S, id) ==
    LET k == IndexOfId(S, id)
    IN IF k = 0 THEN S
       ELSE [S EXCEPT ![k].status = "Complete", ![k].currentPos = S[k].endByte + 1]

MarkError(S, id) ==
    LET k == IndexOfId(S, id)
    IN IF k = 0 THEN S
       ELSE [S EXCEPT ![k].status = "Error", ![k].connectionId = NoConn]

ReleaseSegment(S, id) ==
    LET k == IndexOfId(S, id)
    IN IF k = 0 THEN S
       ELSE [S EXCEPT ![k].status = IF S[k].status # "Complete" THEN "Pending"
                                    ELSE "Complete",
                      ![k].connectionId = NoConn]

SegIds(S) == {S[i].id : i \in DOMAIN S}
ActiveSegments(S) == {i \in DOMAIN S : S[i].status = "Active"}


\* ---- snapshot file (SegmentManager::SaveState / LoadStateFromFile) ----
\* an absent snapshot file
NoFile == [exists |-> FALSE, fileSize |-> 0, segs |-> << >>]
DEFAULT_MAX_CONNECTIONS == 8

\* static_cast<uint8>(SegmentStatus) and back
StatusCode(st) ==
    CASE st = "Pending" -> 0 [] st = "Active" -> 1 [] st = "Complete" -> 2 [] st = "Error" -> 3
StatusOfCode(n) ==
    CASE n = 0 -> "Pending" [] n = 1 -> "Active" [] n = 2 -> "Complete" [] n = 3 -> "Error"

SaveState(S, fileSize) ==
    [exists |-> TRUE,
     fileSize |-> fileSize,
     segs |-> [i \in DOMAIN S |->
                 [id |-> S[i].id, startByte |-> S[i].startByte, endByte |-> S[i].endByte,
                  currentPos |-> S[i].currentPos, status |-> StatusCode(S[i].status)]]]

RECURSIVE MaxNextId(_)
MaxNextId(F) ==
    IF F = << >> THEN 0
    ELSE LET r == MaxNextId(Tail(F))
         IN IF Head(F).id + 1 > r THEN Head(F).id + 1 ELSE r

\* faulty variant: every segment keeps the status it was saved with
LoadStateFromFile_KeepsStatus(file) ==
    [segs |-> [i \in DOMAIN file.segs |->
                 [id |-> file.segs[i].id,
                  startByte |-> file.segs[i].startByte,
                  endByte |-> file.segs[i].endByte,
                  currentPos |-> file.segs[i].currentPos,
                  connectionId |-> NoConn,
                  status |-> StatusOfCode(file.segs[i].status)]],
     fileSize |-> file.fileSize,
     nextId |-> MaxNextId(file.segs)]
\* LoadStateFromFile: [segs, fileSize, nextId]
LoadStateFromFile(file) ==
    [segs |-> [i \in DOMAIN file.segs |->
                 [id |-> file.segs[i].id,
                  startByte |-> file.segs[i].startByte,
                  endByte |-> file.segs[i].endByte,
                  currentPos |-> file.segs[i].currentPos,
                  connectionId |-> NoConn,
                  status |-> IF StatusOfCode(file.segs[i].status) # "Complete"
                             THEN "Pending" ELSE "Complete"]],
     fileSize |-> file.fileSize,
     nextId |-> MaxNextId(file.segs)]

\* ---- written byte intervals, kept as a set of disjoint half-open <<lo, hi>> ----
SetMin(X) == CHOOSE x \in X : \A y \in X : x <= y
SetMax(X) == CHOOSE x \in X : \A y \in X : x >= y

AddInterval(W, lo, hi) ==
    LET touching == {iv \in W : iv[1] <= hi /\ iv[2] >= lo}
        newLo == SetMin({lo} \cup {iv[1] : iv \in touching})
        newHi == SetMax({hi} \cup {iv[2] : iv \in touching})
    IN (W \ touching) \cup {<<newLo, newHi>>}

Overlap(W1, W2) ==
    \E a \in W1, b \in W2 : a[1] < b[2] /\ b[1] < a[2]

\* ---- HTTP ----
PermanentStatuses == {401, 403, 404, 410}
\* statuses a range GET is answered with in the model (a 404 answer has an
\* empty body)
RespStatuses == {206, 404}

NoAcct == [kind |-> "none", entryBytes |-> 0, segBytes |-> 0]
Acct(kind, eb, sb) == [kind |-> kind, entryBytes |-> eb, segBytes |-> sb]

\* number of ConnectionWorker threads DownloadWorker launches
NumConnections(e) ==
    IF e.resumeSupported
    THEN (IF e.numConnections < MAX_CONNECTIONS THEN e.numConnections ELSE MAX_CONNECTIONS)
    ELSE 1
Launched == {c \in Conns : c < NumConnections(entry)}

\* the components a download does not touch in this model
sideVars == <<limiter, limEnv, db, call, fs, rm, mx, lk>>
engVars == <<entry, dbEntry, active, cancelled, paused, opc, wpc, assign, retryCount, resp,
             delivered, writtenBy, written, segFile, partialExists, server, acct,
             startInfo, errorEvents, lastFailed>>
vars == <<segs, m_fileSize, m_maxConnections, m_minSegmentSize, m_nextSegmentId, lastCall,
          entry, dbEntry, active, cancelled, paused, opc, wpc, assign, retryCount, resp,
          delivered, writtenBy, written, segFile, partialExists, server, acct,
          startInfo, errorEvents, lastFailed, limiter, limEnv, db, call, fs, rm, mx,
          lk>>

\* the idle values of those components
NoLimiter == [m_limitBps |-> 0, m_burstCapacity |-> 0, m_tokens |-> 0, m_lastRefill |-> 0]
NoLimEnv == [now |-> 0, sleeping |-> << >>, admitted |-> 0]
NoDb == [m_entries |-> << >>, m_dirty |-> FALSE, file |-> << >>, journal |-> << >>,
         up |-> FALSE, before |-> << >>, flushed |-> << >>, last |-> "none"]
NoCall == [args |-> << >>, returned |-> FALSE, result |-> 0]
NoFs == [partial |-> FALSE, files |-> << >>, results |-> << >>, before |-> << >>,
         mode |-> "AutoRename"]
NoRm == "none"
NoMx == [observers |-> {}, pc |-> << >>, todo |-> << >>]
NoLk == << >>
\* the components a specification of one component leaves idle
RestIdle(used) ==
    /\ IF "limiter" \in used THEN TRUE ELSE limiter = NoLimiter /\ limEnv = NoLimEnv
    /\ IF "db" \in used THEN TRUE ELSE db = NoDb
    /\ IF "call" \in used THEN TRUE ELSE call = NoCall
    /\ IF "fs" \in used THEN TRUE ELSE fs = NoFs
    /\ IF "rm" \in used THEN TRUE ELSE rm = NoRm
    /\ IF "mx" \in used THEN TRUE ELSE mx = NoMx
    /\ IF "lk" \in used THEN TRUE ELSE lk = NoLk
SideIdle == RestIdle({})

\* the last segment-manager call when it was a RequestSegment: the number of
\* Active segments it found and whether it returned an assignment
Call(name, before, success) == [name |-> name, activeBefore |-> before, success |-> success]

\* ---- what an earlier session leaves behind ----
\* The segment map of a session in which worker 0 took the whole file, worker 1
\* split it, worker 0 wrote its buffer (which completed its half) and the
\* download was then paused.
PriorSegs ==
    LET r0 == RequestSegment(InitialSegments(MaxFileSize), NumConns, MIN_SEGMENT_SIZE, 1, 0)
        r1 == RequestSegment(r0.segs, NumConns, MIN_SEGMENT_SIZE, r0.nextId, 1)
    IN UpdateProgress(r1.segs, r0.result.newSegmentId, BUFFER_SIZE)

QueuedEntry ==
    [status |-> "Queued", downloadedBytes |-> 0, fileSize |-> -1, etag |-> 0,
     resumeSupported |-> FALSE, numConnections |-> NumConns, maxRetries |-> MaxRetries]

\* the entry as that paused session stored it (ETag 1 cached)
PausedEntry ==
    [status |-> "Paused", downloadedBytes |-> GetTotalDownloaded(PriorSegs),
     fileSize |-> MaxFileSize, etag |-> 1,
     resumeSupported |-> TRUE, numConnections |-> NumConns, maxRetries |-> MaxRetries]

\* the engine with one entry and no active download: either a new queued entry
\* on a clean disk, or the entry, snapshot and partial file of the paused session
\* (requested: the connection count the caller put in the entry)
EngineIdleWith(requested) ==
    /\ \/ /\ dbEntry = [QueuedEntry EXCEPT !.numConnections = requested]
          /\ segFile = NoFile
          /\ partialExists = FALSE
          /\ written = {}
          /\ server \in [etag : {1}, contentLength : {MaxFileSize}, acceptRanges : BOOLEAN]
       \/ /\ dbEntry = [PausedEntry EXCEPT !.numConnections = requested]
          /\ segFile = SaveState(PriorSegs, MaxFileSize)
          /\ partialExists = TRUE
          /\ written = {<<0, BUFFER_SIZE>>}
          \* the resource is unchanged (ETag 1) or was replaced meanwhile (ETag 2)
          /\ server \in [etag : {1, 2}, contentLength : {MaxFileSize}, acceptRanges : {TRUE}]
    /\ entry = dbEntry
    /\ active = FALSE
    /\ cancelled = FALSE
    /\ paused = FALSE
    /\ opc = "none"
    /\ wpc = [c \in Conns |-> "idle"]
    /\ assign = [c \in Conns |-> NoResult]
    /\ retryCount = [c \in Conns |-> 0]
    /\ resp = [c \in Conns |-> 0]
    /\ delivered = [c \in Conns |-> 0]
    /\ writtenBy = [c \in Conns |-> {}]
    /\ acct = NoAcct
    /\ startInfo = [cachedEtag |-> 0, hadSnapshot |-> FALSE, hadPartial |-> FALSE,
                    probe |-> 0, resumed |-> FALSE, workers |-> 0]
    /\ errorEvents = 0
    /\ lastFailed = [c \in Conns |-> -1]

EngineIdle == EngineIdleWith(NumConns)

\* the state after Initialize() of the engine, with that entry in the database
EngineInit ==
    /\ segs = << >>
    /\ m_fileSize = -1
    /\ m_maxConnections = DEFAULT_MAX_CONNECTIONS
    /\ m_minSegmentSize = MIN_SEGMENT_SIZE
    /\ m_nextSegmentId = 0
    /\ lastCall = Call("other", 0, TRUE)
    /\ EngineIdle
    /\ SideIdle

smUnchanged == UNCHANGED <<segs, m_fileSize, m_maxConnections, m_minSegmentSize,
                           m_nextSegmentId, lastCall>>
workerUnchanged == UNCHANGED <<wpc, assign, retryCount, resp, delivered>>

\* DownloadEngine::StartDownload
StartDownload ==
    /\ acct' = NoAcct
    /\ UNCHANGED sideVars
    /\ IF active
       THEN /\ paused
            /\ paused' = FALSE
            /\ smUnchanged
            /\ workerUnchanged
            /\ UNCHANGED <<entry, dbEntry, active, cancelled, opc, writtenBy, written, segFile,
                           partialExists, server, startInfo, errorEvents, lastFailed>>
       ELSE /\ opc = "none"
            \* m_database.GetEntry(id) finds the entry
            /\ rm # "removed"
            /\ entry' = [dbEntry EXCEPT !.status = "Connecting"]
            /\ dbEntry' = entry'
            /\ active' = TRUE
            /\ cancelled' = FALSE
            /\ paused' = FALSE
            \* a fresh ActiveDownload holds a default-constructed SegmentManager
            /\ segs' = << >>
            /\ m_fileSize' = -1
            /\ m_maxConnections' = DEFAULT_MAX_CONNECTIONS
            /\ m_minSegmentSize' = MIN_SEGMENT_SIZE
            /\ m_nextSegmentId' = 0
            /\ opc' = "probe"
            /\ wpc' = [c \in Conns |-> "idle"]
            /\ assign' = [c \in Conns |-> NoResult]
            /\ retryCount' = [c \in Conns |-> 0]
            /\ resp' = [c \in Conns |-> 0]
            /\ delivered' = [c \in Conns |-> 0]
            /\ writtenBy' = [c \in Conns |-> {}]
            /\ startInfo' = [cachedEtag |-> dbEntry.etag, hadSnapshot |-> segFile.exists,
                             hadPartial |-> partialExists, probe |-> 0, resumed |-> FALSE,
                             workers |-> 0]
            /\ errorEvents' = 0
            /\ lastFailed' = [c \in Conns |-> -1]
            /\ UNCHANGED <<lastCall, written, segFile, partialExists, server>>

\* statuses the probe HEAD is answered with in the model
ProbeStatuses == {200, 404}

\* what the probe is recorded as: the HTTP status, -1 for a transport failure
ProbeAnswer(ok, st) == IF ok THEN st ELSE -1

\* faulty variant: only a transport failure counts
ProbeFailed_TransportOnly(ok, st) == ~ok
\* the probe's failure test: Head returned false or the status is >= 400
ProbeFailed(ok, st) == ~ok \/ st >= 400

\* DownloadWorker phase 1: the probe failed (transport failure or status >= 400)
ProbeFail(ok, st) ==
    /\ opc = "probe"
    /\ ProbeFailed(ok, st)
    /\ startInfo' = [startInfo EXCEPT !.probe = ProbeAnswer(ok, st)]
    /\ entry' = [entry EXCEPT !.status = "Error"]
    /\ dbEntry' = entry'
    /\ errorEvents' = errorEvents + 1
    /\ active' = FALSE
    /\ opc' = "done"
    /\ acct' = NoAcct
    /\ smUnchanged
    /\ workerUnchanged
    /\ UNCHANGED <<cancelled, paused, writtenBy, written, segFile, partialExists, server,
                   lastFailed>>
    /\ UNCHANGED sideVars

\* DownloadWorker phase 1: the probe succeeded; the entry takes the server's values
ProbeOk(ok, st) ==
    /\ opc = "probe"
    /\ ~ProbeFailed(ok, st)
    /\ startInfo' = [startInfo EXCEPT !.probe = ProbeAnswer(ok, st)]
    /\ entry' = [entry EXCEPT
                   !.fileSize = IF server.contentLength > 0 THEN server.contentLength ELSE @,
                   !.resumeSupported = server.acceptRanges,
                   !.etag = server.etag,
                   !.status = "Downloading"]
    /\ dbEntry' = entry'
    /\ opc' = "segments"
    /\ acct' = NoAcct
    /\ smUnchanged
    /\ workerUnchanged
    /\ UNCHANGED <<active, cancelled, paused, writtenBy, written, segFile, partialExists,
                   server, errorEvents, lastFailed>>
    /\ UNCHANGED sideVars

\* ResumeEngine::RestoreState succeeds: the snapshot file exists and loads
CanRestore == entry.downloadedBytes > 0 /\ entry.resumeSupported /\ segFile.exists

\* DownloadWorker phase 2: restore the segment map or initialise it
InitSegments ==
    /\ opc = "segments"
    /\ IF CanRestore
       THEN LET l == LoadStateFromFile(segFile)
            IN /\ segs' = l.segs
               /\ m_fileSize' = l.fileSize
               /\ m_nextSegmentId' = l.nextId
               /\ entry' = [entry EXCEPT !.downloadedBytes = GetTotalDownloaded(l.segs)]
               /\ startInfo' = [startInfo EXCEPT !.resumed = TRUE]
               /\ UNCHANGED <<m_maxConnections, m_minSegmentSize>>
       ELSE /\ segs' = InitialSegments(entry.fileSize)
            /\ m_fileSize' = entry.fileSize
            /\ m_maxConnections' = IF entry.resumeSupported THEN entry.numConnections ELSE 1
            /\ m_minSegmentSize' = MIN_SEGMENT_SIZE
            /\ m_nextSegmentId' = 1
            /\ UNCHANGED <<entry, startInfo>>
    /\ opc' = "open"
    /\ acct' = NoAcct
    /\ workerUnchanged
    /\ UNCHANGED <<lastCall, dbEntry, active, cancelled, paused, writtenBy, written, segFile,
                   partialExists, server, errorEvents, lastFailed>>
    /\ UNCHANGED sideVars

\* DownloadWorker phases 3 and 4: open the partial file, launch the connection workers
OpenAndDispatch(openOk) ==
    /\ opc = "open"
    /\ IF openOk
       THEN /\ partialExists' = TRUE
            /\ written' = IF partialExists THEN written ELSE {}
            /\ wpc' = [c \in Conns |-> IF c < NumConnections(entry) THEN "loop" ELSE "idle"]
            /\ opc' = "running"
            /\ startInfo' = [startInfo EXCEPT !.workers = NumConnections(entry)]
            /\ UNCHANGED <<entry, dbEntry, active, errorEvents>>
       ELSE /\ entry' = [entry EXCEPT !.status = "Error"]
            /\ dbEntry' = entry'
            /\ errorEvents' = errorEvents + 1
            /\ active' = FALSE
            /\ opc' = "done"
            /\ UNCHANGED <<partialExists, wpc, written, startInfo>>
    /\ acct' = NoAcct
    /\ smUnchanged
    /\ UNCHANGED <<cancelled, paused, assign, retryCount, resp, delivered, writtenBy,
                   segFile, server, lastFailed>>
    /\ UNCHANGED sideVars

\* ---- ConnectionWorker ----
RequestedLength(c) == assign[c].newEnd - assign[c].newStart + 1

\* lengths of the next block the stream of worker c can deliver
NextChunks(c) ==
    {IF cs < RequestedLength(c) - delivered[c] THEN cs ELSE RequestedLength(c) - delivered[c]
       : cs \in {BUFFER_SIZE}} \ {0}

\* the position the chunk callback writes at
WritePos(S, r) ==
    LET k == IndexOfId(S, r.newSegmentId)
    IN IF k > 0 THEN S[k].currentPos ELSE r.newStart + DownloadedBytes(S[1])

\* the thread of worker c ends; its locals are gone
WorkerExits(c) ==
    /\ wpc' = [wpc EXCEPT ![c] = "exited"]
    /\ assign' = [assign EXCEPT ![c] = NoResult]
    /\ retryCount' = [retryCount EXCEPT ![c] = 0]
    /\ resp' = [resp EXCEPT ![c] = 0]
    /\ delivered' = [delivered EXCEPT ![c] = 0]
    /\ writtenBy' = [writtenBy EXCEPT ![c] = {}]
    /\ lastFailed' = [lastFailed EXCEPT ![c] = -1]

\* the worker goes back to the top of its loop; the locals of the pass are gone
NextPass(c) ==
    /\ wpc' = [wpc EXCEPT ![c] = "loop"]
    /\ assign' = [assign EXCEPT ![c] = NoResult]
    /\ resp' = [resp EXCEPT ![c] = 0]
    /\ delivered' = [delivered EXCEPT ![c] = 0]
    /\ writtenBy' = [writtenBy EXCEPT ![c] = {}]

\* one pass from the top of the worker loop to the range GET: leave when
\* cancelled or when RequestSegment has no assignment; else send the GET, which
\* the server answers with status st.  The pause wait between the two never
\* blocks (paused is only set together with cancelled) and a cancel seen right
\* after RequestSegment leaves the segment Active exactly as a cancel seen by
\* the first chunk callback does, so the pass is one step.
WLoop(c, st) ==
    /\ wpc[c] = "loop"
    /\ IF cancelled
       THEN /\ WorkerExits(c)
            /\ UNCHANGED <<segs, m_nextSegmentId>>
       ELSE LET r == RequestSegment(segs, m_maxConnections, m_minSegmentSize,
                                    m_nextSegmentId, c)
            IN /\ segs' = r.segs
               /\ m_nextSegmentId' = r.nextId
               /\ IF r.result.success
                  THEN /\ wpc' = [wpc EXCEPT ![c] = "streaming"]
                       /\ assign' = [assign EXCEPT ![c] = r.result]
                       /\ resp' = [resp EXCEPT ![c] = st]
                       /\ delivered' = [delivered EXCEPT ![c] = 0]
                       /\ lastFailed' = [lastFailed EXCEPT ![c] = -1]
                       /\ UNCHANGED <<retryCount, writtenBy>>
                  ELSE WorkerExits(c)
    /\ acct' = NoAcct
    /\ UNCHANGED <<m_fileSize, m_maxConnections, m_minSegmentSize, lastCall, entry, dbEntry,
                   active, cancelled, paused, opc,
                   written, segFile, partialExists, server, startInfo, errorEvents>>
    /\ UNCHANGED sideVars

\* the chunk callback: write n bytes at the segment's cursor, UpdateProgress;
\* when a second has elapsed since the worker's last publication (publish),
\* notify the observers and store the progress in the database record
WChunk(c, n, publish) ==
    /\ wpc[c] = "streaming"
    /\ resp[c] = 206
    /\ ~cancelled /\ ~paused
    /\ n \in NextChunks(c)
    /\ LET pos == WritePos(segs, assign[c])
           S2 == UpdateProgress(segs, assign[c].newSegmentId, n)
       IN /\ writtenBy' = [writtenBy EXCEPT ![c] = AddInterval(@, pos, pos + n)]
          /\ written' = AddInterval(written, pos, pos + n)
          /\ segs' = S2
          /\ IF publish
             THEN /\ dbEntry' = [dbEntry EXCEPT !.downloadedBytes = GetTotalDownloaded(S2)]
                  /\ acct' = Acct("progress", dbEntry'.downloadedBytes, GetTotalDownloaded(S2))
             ELSE /\ acct' = NoAcct
                  /\ UNCHANGED dbEntry
    /\ delivered' = [delivered EXCEPT ![c] = @ + n]
    /\ UNCHANGED <<m_fileSize, m_maxConnections, m_minSegmentSize, m_nextSegmentId, lastCall,
                   entry, active, cancelled, paused, opc, wpc, assign, retryCount, resp,
                   segFile, partialExists, server, startInfo, errorEvents, lastFailed>>
    /\ UNCHANGED sideVars

\* Get returned true: the stream ended (the server sent no more data)
WStreamEnd(c) ==
    /\ wpc[c] = "streaming"
    /\ segs' = MarkComplete(segs, assign[c].newSegmentId)
    /\ retryCount' = [retryCount EXCEPT ![c] = 0]
    /\ lastFailed' = [lastFailed EXCEPT ![c] = -1]
    /\ NextPass(c)
    /\ acct' = NoAcct
    /\ UNCHANGED <<m_fileSize, m_maxConnections, m_minSegmentSize, m_nextSegmentId, lastCall,
                   entry, dbEntry, active, cancelled, paused, opc,
                   written, segFile, partialExists, server, startInfo, errorEvents>>
    /\ UNCHANGED sideVars

\* what the worker does when Get returned false
GetFailed(c) ==
    /\ IF cancelled
       THEN /\ retryCount' = [retryCount EXCEPT ![c] = 0]
            /\ lastFailed' = [lastFailed EXCEPT ![c] = -1]
            /\ NextPass(c)
            /\ UNCHANGED segs
       ELSE /\ segs' = MarkError(segs, assign[c].newSegmentId)
            /\ IF retryCount[c] + 1 >= entry.maxRetries
               THEN WorkerExits(c)
               \* on a retry the interruptible delay leads back to the top of the loop
               ELSE /\ retryCount' = [retryCount EXCEPT ![c] = @ + 1]
                    /\ lastFailed' = [lastFailed EXCEPT ![c] = assign[c].newSegmentId]
                    /\ NextPass(c)
    /\ acct' = NoAcct
    /\ UNCHANGED <<m_fileSize, m_maxConnections, m_minSegmentSize, m_nextSegmentId, lastCall,
                   entry, dbEntry, active, cancelled, paused, opc,
                   written, segFile, partialExists, server, startInfo, errorEvents>>
    /\ UNCHANGED sideVars

\* Get returned false because of a transport error
WStreamFail(c) ==
    /\ wpc[c] = "streaming"
    /\ GetFailed(c)

\* Get returned false because the chunk callback saw cancelled or paused
WAbort(c) ==
    /\ wpc[c] = "streaming"
    /\ resp[c] = 206
    /\ cancelled \/ paused
    /\ RequestedLength(c) - delivered[c] > 0
    /\ GetFailed(c)

\* faulty variant: the cancel flag is not looked at
PhaseFiveOutcome_IgnoresCancel(isCancelled, complete) ==
    IF complete THEN "Merging" ELSE "Error"
\* the branch phase 5 takes: the cancel flag is tested first, then IsComplete()
PhaseFiveOutcome(isCancelled, complete) ==
    IF isCancelled THEN "Paused" ELSE IF complete THEN "Merging" ELSE "Error"

\* ---- DownloadWorker phase 5, after all connection threads were joined ----
Phase5 ==
    /\ opc = "running"
    /\ \A c \in Launched : wpc[c] = "exited"
    /\ IF PhaseFiveOutcome(cancelled, IsComplete(segs)) = "Paused"
       THEN /\ entry' = [entry EXCEPT !.status = "Paused",
                                     !.downloadedBytes = GetTotalDownloaded(segs)]
            /\ dbEntry' = entry'
            /\ segFile' = SaveState(segs, m_fileSize)
            /\ acct' = Acct("pausedSave", dbEntry'.downloadedBytes, GetTotalDownloaded(segs))
            /\ active' = FALSE
            /\ opc' = "done"
            /\ UNCHANGED errorEvents
       ELSE IF PhaseFiveOutcome(cancelled, IsComplete(segs)) = "Merging"
       THEN /\ entry' = [entry EXCEPT !.status = "Merging"]
            /\ dbEntry' = entry'
            /\ opc' = "merging"
            /\ acct' = NoAcct
            /\ UNCHANGED <<segFile, active, errorEvents>>
       ELSE /\ entry' = [entry EXCEPT !.status = "Error",
                                     !.downloadedBytes = GetTotalDownloaded(segs)]
            /\ dbEntry' = entry'
            /\ segFile' = SaveState(segs, m_fileSize)
            /\ acct' = Acct("errorSave", dbEntry'.downloadedBytes, GetTotalDownloaded(segs))
            /\ errorEvents' = errorEvents + 1
            /\ active' = FALSE
            /\ opc' = "done"
    /\ smUnchanged
    /\ workerUnchanged
    /\ UNCHANGED <<cancelled, paused, writtenBy, written, partialExists, server, startInfo,
                   lastFailed>>
    /\ UNCHANGED sideVars

\* FileAssembler::Finalize returned (ok: a non-empty path) and the entry is closed
Finalize(ok) ==
    /\ opc = "merging"
    /\ IF ok
       THEN /\ entry' = [entry EXCEPT !.status = "Complete", !.downloadedBytes = entry.fileSize]
            /\ partialExists' = FALSE
            /\ segFile' = NoFile
            /\ UNCHANGED errorEvents
       ELSE /\ entry' = [entry EXCEPT !.status = "Error"]
            /\ errorEvents' = errorEvents + 1
            /\ UNCHANGED <<partialExists, segFile>>
    /\ dbEntry' = entry'
    /\ active' = FALSE
    /\ opc' = "done"
    /\ acct' = NoAcct
    /\ smUnchanged
    /\ workerUnchanged
    /\ UNCHANGED <<cancelled, paused, writtenBy, written, server, startInfo, lastFailed>>
    /\ UNCHANGED sideVars

\* DownloadEngine::PauseDownload
PauseDownload ==
    /\ opc # "crashed"
    /\ IF active
       THEN /\ paused' = TRUE
            /\ cancelled' = TRUE
            /\ UNCHANGED dbEntry
       ELSE /\ dbEntry' = [dbEntry EXCEPT !.status = "Paused"]
            /\ UNCHANGED <<paused, cancelled>>
    /\ acct' = NoAcct
    /\ smUnchanged
    /\ workerUnchanged
    /\ UNCHANGED <<entry, active, opc, writtenBy, written, segFile, partialExists, server,
                   startInfo, errorEvents, lastFailed>>
    /\ UNCHANGED sideVars

\* DownloadEngine::StopDownload
StopDownload ==
    /\ active
    /\ cancelled' = TRUE
    /\ acct' = NoAcct
    /\ smUnchanged
    /\ workerUnchanged
    /\ UNCHANGED <<entry, dbEntry, active, paused, opc, writtenBy, written, segFile,
                   partialExists, server, startInfo, errorEvents, lastFailed>>
    /\ UNCHANGED sideVars

\* one round of StatePersistThread: snapshot the active download unless cancelled
PersistTick ==
    /\ active /\ ~cancelled
    /\ segFile' = SaveState(segs, m_fileSize)
    /\ acct' = Acct("periodic", dbEntry.downloadedBytes, GetTotalDownloaded(segs))
    /\ smUnchanged
    /\ workerUnchanged
    /\ UNCHANGED <<entry, dbEntry, active, cancelled, paused, opc, writtenBy, written,
                   partialExists, server, startInfo, errorEvents, lastFailed>>
    /\ UNCHANGED sideVars

WorkerStep(c) ==
    \/ \E st \in RespStatuses : WLoop(c, st)
    \/ \E n \in NextChunks(c) : WChunk(c, n, FALSE)
    \/ WStreamEnd(c)
    \/ WStreamFail(c)
    \/ WAbort(c)

OrchestratorStep ==
    \/ \E ok \in BOOLEAN, st \in ProbeStatuses : ProbeFail(ok, st)
    \/ \E ok \in BOOLEAN, st \in ProbeStatuses : ProbeOk(ok, st)
    \/ InitSegments
    \/ \E ok \in BOOLEAN : OpenAndDispatch(ok)
    \/ Phase5
    \/ \E ok \in BOOLEAN : Finalize(ok)

Next ==
    \/ StartDownload
    \/ OrchestratorStep
    \/ \E c \in Conns : WorkerStep(c)
    \/ PauseDownload
    \/ StopDownload

\* one start of one download: the caller's start, pause and stop, the
\* orchestrator thread and its connection workers, in less time than the
\* engine's timers take to fire
Spec == EngineInit /\ [][Next]_vars

\* a step of one of the download's threads
ThreadStep ==
    \/ OrchestratorStep
    \/ \E c \in Conns : WorkerStep(c)

\* the same with the timers firing: the once-per-second progress publication
\* of a worker and the rounds of the state-persist thread
NextPersist ==
    \/ Next
    \/ \E c \in Conns : \E n \in NextChunks(c) : WChunk(c, n, TRUE)
    \/ PersistTick

SpecPersist == EngineInit /\ [][NextPersist]_vars

\* ---- the process stops inside SaveState ----
\* SaveState opens the snapshot file itself with std::ios::trunc and writes the
\* header and the segment records into it.  What the disk holds when the
\* process stops inside the call: the emptied file, or the header followed by
\* the first k records (all of them when only the return was missing).
EmptyFile == [exists |-> TRUE, fileSize |-> 0, segs |-> << >>]
TornSaves(S, fileSize) ==
    {EmptyFile} \cup
    {[SaveState(S, fileSize) EXCEPT !.segs = SubSeq(@, 1, k)] : k \in 0 .. Len(S)}

\* the process stops while phase 5 is in ResumeEngine::SaveState (or right
\* before the file is opened)
SaveStateCrash ==
    /\ opc = "running"
    /\ \A c \in Launched : wpc[c] = "exited"
    /\ PhaseFiveOutcome(cancelled, IsComplete(segs)) \in {"Paused", "Error"}
    /\ segFile' \in TornSaves(segs, m_fileSize) \cup {segFile}
    /\ opc' = "crashed"
    /\ active' = FALSE
    /\ acct' = NoAcct
    /\ smUnchanged
    /\ workerUnchanged
    /\ UNCHANGED <<entry, dbEntry, cancelled, paused, writtenBy, written, partialExists,
                   server, startInfo, errorEvents, lastFailed>>
    /\ UNCHANGED sideVars

SpecCrash == EngineInit /\ [][Next \/ SaveStateCrash]_vars

\* ---- a download of a larger file: a new entry, a server with byte ranges ----
\* MaxMapSize bytes: the first split leaves a second half that is split again
\* when a worker has finished its own segment
SplitInit ==
    /\ segs = << >>
    /\ m_fileSize = -1
    /\ m_maxConnections = DEFAULT_MAX_CONNECTIONS
    /\ m_minSegmentSize = MIN_SEGMENT_SIZE
    /\ m_nextSegmentId = 0
    /\ lastCall = Call("other", 0, TRUE)
    /\ dbEntry = QueuedEntry
    /\ segFile = NoFile
    /\ partialExists = FALSE
    /\ written = {}
    /\ server = [etag |-> 1, contentLength |-> MaxMapSize, acceptRanges |-> TRUE]
    /\ entry = dbEntry
    /\ active = FALSE
    /\ cancelled = FALSE
    /\ paused = FALSE
    /\ opc = "none"
    /\ wpc = [c \in Conns |-> "idle"]
    /\ assign = [c \in Conns |-> NoResult]
    /\ retryCount = [c \in Conns |-> 0]
    /\ resp = [c \in Conns |-> 0]
    /\ delivered = [c \in Conns |-> 0]
    /\ writtenBy = [c \in Conns |-> {}]
    /\ acct = NoAcct
    /\ startInfo = [cachedEtag |-> 0, hadSnapshot |-> FALSE, hadPartial |-> FALSE,
                    probe |-> 0, resumed |-> FALSE, workers |-> 0]
    /\ errorEvents = 0
    /\ lastFailed = [c \in Conns |-> -1]
    /\ SideIdle

SpecSplit == SplitInit /\ [][Next]_vars

\* ---- RemoveDownload(id, deleteFiles = true) ----
\* rm: "none" (not called), "stopped" (StopDownload returned, the caller is in
\* its 500 ms sleep), "removed" (RemoveEntry deleted the files and erased the
\* entry; RemoveDownload returned). The download's threads are not joined:
\* they take any number of steps before, during and after the sleep.
\* After the entry was erased UpdateEntry finds no entry; dbEntry then holds
\* what the download thread last passed to it.

\* the partial file is open in the download (hFile, opened with FILE_SHARE_READ)
PartialOpen == opc \in {"running"}

\* StopDownload(id) at the start of RemoveDownload
RemoveDownloadStop ==
    /\ rm = "none"
    /\ rm' = "stopped"
    /\ cancelled' = (cancelled \/ active)
    /\ smUnchanged
    /\ workerUnchanged
    /\ UNCHANGED <<entry, dbEntry, active, paused, opc, writtenBy, written, segFile,
                   partialExists, server, acct, startInfo, errorEvents, lastFailed>>
    /\ UNCHANGED <<limiter, limEnv, db, call, fs, mx, lk>>

\* m_database.RemoveEntry(id, true) after the sleep: std::filesystem::remove of
\* the partial file (fails while the file is open) and of the snapshot file
RemoveDownloadEntry ==
    /\ rm = "stopped"
    /\ rm' = "removed"
    /\ partialExists' = (partialExists /\ PartialOpen)
    /\ segFile' = NoFile
    /\ smUnchanged
    /\ workerUnchanged
    /\ UNCHANGED <<entry, dbEntry, active, cancelled, paused, opc, writtenBy, written,
                   server, acct, startInfo, errorEvents, lastFailed>>
    /\ UNCHANGED <<limiter, limEnv, db, call, fs, mx, lk>>

RemoveNext ==
    \/ Next
    \/ RemoveDownloadStop
    \/ RemoveDownloadEntry

SpecRemove == EngineInit /\ [][RemoveNext]_vars

\* ---- the plan of a start, for the connection counts a caller may request ----
\* connection counts put in the entry: below the minimum, the minimum, the
\* model's count, the maximum and above it
Requested == {0, 1, NumConns, MAX_CONNECTIONS, MAX_CONNECTIONS + 1}

PlanInit ==
    /\ segs = << >>
    /\ m_fileSize = -1
    /\ m_maxConnections = DEFAULT_MAX_CONNECTIONS
    /\ m_minSegmentSize = MIN_SEGMENT_SIZE
    /\ m_nextSegmentId = 0
    /\ lastCall = Call("other", 0, TRUE)
    /\ \E requested \in Requested : EngineIdleWith(requested)
    /\ SideIdle

\* a start up to the launch of the connection workers
PlanNext ==
    \/ StartDownload
    \/ \E ok \in BOOLEAN, st \in ProbeStatuses : ProbeFail(ok, st)
    \/ \E ok \in BOOLEAN, st \in ProbeStatuses : ProbeOk(ok, st)
    \/ InitSegments
    \/ \E ok \in BOOLEAN : OpenAndDispatch(ok)
    \/ PauseDownload
    \/ StopDownload

SpecPlan == PlanInit /\ [][PlanNext]_vars

\* ---- the segment manager driven directly by its callers ----
SMInit ==
    /\ m_fileSize \in FileSizes
    /\ m_maxConnections \in 1 .. NumConns
    /\ m_minSegmentSize = MIN_SEGMENT_SIZE
    /\ m_nextSegmentId = 1
    /\ segs = InitialSegments(m_fileSize)
    /\ lastCall = Call("other", 0, TRUE)
    /\ EngineIdle
    /\ SideIdle
    /\ dbEntry = QueuedEntry
    /\ server.acceptRanges

SMRequestSegment(c) ==
    LET r == RequestSegment(segs, m_maxConnections, m_minSegmentSize, m_nextSegmentId, c)
    IN /\ segs' = r.segs
       /\ m_nextSegmentId' = r.nextId
       /\ lastCall' = Call("RequestSegment", Cardinality(ActiveSegments(segs)), r.result.success)
       /\ UNCHANGED <<m_fileSize, m_maxConnections, m_minSegmentSize>>
       /\ UNCHANGED engVars
       /\ UNCHANGED sideVars
    /\ UNCHANGED sideVars

SMUpdateProgress(id, n) ==
    /\ segs' = UpdateProgress(segs, id, n)
    /\ lastCall' = Call("other", 0, TRUE)
    /\ UNCHANGED <<m_fileSize, m_maxConnections, m_minSegmentSize, m_nextSegmentId>>
    /\ UNCHANGED engVars
    /\ UNCHANGED sideVars

SMMarkComplete(id) ==
    /\ segs' = MarkComplete(segs, id)
    /\ lastCall' = Call("other", 0, TRUE)
    /\ UNCHANGED <<m_fileSize, m_maxConnections, m_minSegmentSize, m_nextSegmentId>>
    /\ UNCHANGED engVars
    /\ UNCHANGED sideVars

SMMarkError(id) ==
    /\ segs' = MarkError(segs, id)
    /\ lastCall' = Call("other", 0, TRUE)
    /\ UNCHANGED <<m_fileSize, m_maxConnections, m_minSegmentSize, m_nextSegmentId>>
    /\ UNCHANGED engVars
    /\ UNCHANGED sideVars

SMReleaseSegment(id) ==
    /\ segs' = ReleaseSegment(segs, id)
    /\ lastCall' = Call("other", 0, TRUE)
    /\ UNCHANGED <<m_fileSize, m_maxConnections, m_minSegmentSize, m_nextSegmentId>>
    /\ UNCHANGED engVars
    /\ UNCHANGED sideVars

SMNext ==
    \/ \E c \in Conns : SMRequestSegment(c)
    \/ \E id \in SegIds(segs), n \in ProgressSizes : SMUpdateProgress(id, n)
    \/ \E id \in SegIds(segs) : SMMarkComplete(id)
    \/ \E id \in SegIds(segs) : SMMarkError(id)
    \/ \E id \in SegIds(segs) : SMReleaseSegment(id)

SpecSM == SMInit /\ [][SMNext]_vars

\* ======================= properties =======================

\* C1 (Coverage): in every reachable state of a segment manager initialised
\* with a known file size, the segment list in list order partitions
\* [0, fileSize): first start 0, last end fileSize-1, each start is the
\* previous end + 1, and no two ranges overlap.
C1_Coverage ==
    /\ segs # << >>
    /\ segs[1].startByte = 0
    /\ segs[Len(segs)].endByte = m_fileSize - 1
    /\ \A i \in 2 .. Len(segs) : segs[i].startByte = segs[i - 1].endByte + 1
    /\ \A i, j \in DOMAIN segs :
          i # j => \/ segs[i].endByte < segs[j].startByte
                   \/ segs[j].endByte < segs[i].startByte

\* a map that was split twice and has progress in a split parent
C1_Witness ==
    /\ Len(segs) >= 3
    /\ \E i \in DOMAIN segs : segs[i].currentPos > segs[i].startByte /\ i < Len(segs)
    /\ \E i \in DOMAIN segs : segs[i].status = "Complete"

C5_BoundedConcurrency ==
    /\ Cardinality(ActiveSegments(segs)) <= m_maxConnections
    /\ (lastCall.name = "RequestSegment" /\ lastCall.activeBefore >= m_maxConnections)
          => ~lastCall.success

\* a request was refused for lack of a slot although a segment was waiting
C5_Witness ==
    /\ lastCall.name = "RequestSegment"
    /\ ~lastCall.success
    /\ lastCall.activeBefore >= m_maxConnections
    /\ Cardinality(ActiveSegments(segs)) = m_maxConnections
    /\ FindPendingSegment(segs) > 0

\* ---- components used on their own ----
coreVars == <<segs, m_fileSize, m_maxConnections, m_minSegmentSize, m_nextSegmentId, lastCall,
              engVars>>

\* an engine with one queued entry and no download started
CoreIdle ==
    /\ segs = << >>
    /\ m_fileSize = -1
    /\ m_maxConnections = DEFAULT_MAX_CONNECTIONS
    /\ m_minSegmentSize = MIN_SEGMENT_SIZE
    /\ m_nextSegmentId = 0
    /\ lastCall = Call("other", 0, TRUE)
    /\ EngineIdle
    /\ dbEntry = QueuedEntry
    /\ server.acceptRanges

\* ---- ResumeEngine::GetRetryDelay ----
\* the loop `for (i = 1; i < retryCount && i < 8; ++i) delay *= 2`
RECURSIVE DelayLoop(_, _, _)
DelayLoop(delay, i, attempt) ==
    IF i < attempt /\ i < 8 THEN DelayLoop(delay * 2, i + 1, attempt) ELSE delay

GetRetryDelay(attempt, baseDelaySec) ==
    LET delay == DelayLoop(baseDelaySec, 1, attempt)
    IN IF delay < 300 THEN delay ELSE 300

DelayInit ==
    /\ CoreIdle
    /\ RestIdle({"call"})
    /\ call \in [args : (1 .. MaxAttempt) \X (1 .. MaxBaseDelay), returned : {FALSE}, result : {0}]

\* the call returns
CallGetRetryDelay ==
    /\ ~call.returned
    /\ call' = [call EXCEPT !.returned = TRUE,
                            !.result = GetRetryDelay(call.args[1], call.args[2])]
    /\ UNCHANGED <<coreVars, limiter, limEnv, db, fs, rm, mx, lk>>

SpecDelay == DelayInit /\ [][CallGetRetryDelay]_vars

\* ---- SpeedLimiter ----
\* Time is counted in ticks of 100 ms, the cap RequestBytes puts on one sleep;
\* tokens are counted in units of 1/TicksPerSecond byte, so that a rate of R
\* bytes per second refills R units per tick.
TicksPerSecond == 10
Callers == 0 .. (NumCallers - 1)
NotSleeping == [bytes |-> 0, wait |-> 0]

\* SetLimit: the bucket holds twice the per-second rate and starts full
SetLimit(bytesPerSecond) ==
    [m_limitBps |-> bytesPerSecond,
     m_burstCapacity |-> bytesPerSecond * 2 * TicksPerSecond,
     m_tokens |-> bytesPerSecond * 2 * TicksPerSecond,
     m_lastRefill |-> 0]

\* the refill at a clock reading: elapsed * limit more tokens, capped at the burst
Refill(l, clock) ==
    LET t == l.m_tokens + (clock - l.m_lastRefill) * l.m_limitBps
    IN [l EXCEPT !.m_lastRefill = clock,
                 !.m_tokens = IF t > l.m_burstCapacity THEN l.m_burstCapacity ELSE t]

\* ticks of the sleep: min(bytes / limit, 0.1) seconds, truncated to whole ms
SleepTicks(bytes, limit) == IF bytes * TicksPerSecond >= limit THEN 1 ELSE 0

LimiterInit ==
    /\ CoreIdle
    /\ RestIdle({"limiter"})
    /\ \E rate \in 1 .. MaxRate : limiter = SetLimit(rate)
    /\ limEnv = [now |-> 0, sleeping |-> [k \in Callers |-> NotSleeping], admitted |-> 0]

\* the bound of the rate cap for the window that starts with SetLimit
WindowTicks == 2 * TicksPerSecond
RateCap == 2 * limiter.m_limitBps + limiter.m_burstCapacity \div TicksPerSecond

\* RequestBytes(bytes) by caller k up to its return or its sleep
RequestBytes(k, bytes) ==
    /\ limEnv.sleeping[k] = NotSleeping
    /\ limEnv.admitted <= RateCap
    /\ LET l == Refill(limiter, limEnv.now)
           permitted == l.m_tokens \div TicksPerSecond
       IN IF l.m_tokens >= bytes * TicksPerSecond
          THEN /\ limiter' = [l EXCEPT !.m_tokens = @ - bytes * TicksPerSecond]
               /\ limEnv' = [limEnv EXCEPT !.admitted = @ + bytes]
          ELSE IF l.m_tokens > 0 /\ permitted > 0
          THEN /\ limiter' = [l EXCEPT !.m_tokens = 0]
               /\ limEnv' = [limEnv EXCEPT !.admitted = @ + permitted]
          ELSE /\ limiter' = [l EXCEPT !.m_tokens = 0]
               /\ limEnv' = [limEnv EXCEPT !.sleeping[k] =
                                [bytes |-> bytes, wait |-> SleepTicks(bytes, l.m_limitBps)]]
    /\ UNCHANGED <<coreVars, db, call, fs, rm, mx, lk>>

\* what RequestBytes returns after its sleep, given the tokens it then finds
PermittedAfterSleep(permitted) == IF permitted > 0 THEN permitted ELSE 1

\* caller k wakes from the sleep inside RequestBytes and returns
RequestBytesWake(k) ==
    /\ limEnv.sleeping[k] # NotSleeping
    /\ limEnv.sleeping[k].wait = 0
    /\ LET l == Refill(limiter, limEnv.now)
           want == limEnv.sleeping[k].bytes * TicksPerSecond
           permitted == (IF l.m_tokens < want THEN l.m_tokens ELSE want) \div TicksPerSecond
       IN /\ limiter' = [l EXCEPT !.m_tokens = @ - permitted * TicksPerSecond]
          /\ limEnv' = [limEnv EXCEPT !.sleeping[k] = NotSleeping,
                                      !.admitted = @ + PermittedAfterSleep(permitted)]
    /\ UNCHANGED <<coreVars, db, call, fs, rm, mx, lk>>

\* 100 ms pass
Tick ==
    /\ limEnv.now < WindowTicks
    /\ limEnv' = [limEnv EXCEPT
                    !.now = @ + 1,
                    !.sleeping = [k \in Callers |->
                                    IF limEnv.sleeping[k].wait > 0
                                    THEN [limEnv.sleeping[k] EXCEPT !.wait = @ - 1]
                                    ELSE limEnv.sleeping[k]]]
    /\ UNCHANGED <<coreVars, limiter, db, call, fs, rm, mx, lk>>

LimiterNext ==
    \/ \E k \in Callers, bytes \in {1, MaxRequest} : RequestBytes(k, bytes)
    \/ \E k \in Callers : RequestBytesWake(k)
    \/ Tick

SpecLimiter == LimiterInit /\ [][LimiterNext]_vars

\* ---- Database ----
\* An entry is represented by its id, its downloadedBytes and its status (id 0:
\* the empty id).  m_entries maps every id to its entry, NoEntry when the id is
\* not in the map.  db.file is the content of the database file as a sequence
\* of lines (empty: no file), db.journal that of the journal file.  db.up tells
\* whether the process is running: after a crash db.m_entries keeps what the
\* calls that had returned left in memory, and db.before what was there before
\* the last of them.  db.flushed is the map as the last SaveToDisk or Open had
\* it.  db.last is the call that returned last (an Open is told apart by how
\* the process before it ended).
EntryIds == 1 .. MaxEntries
NoEntry == [id |-> 0, downloadedBytes |-> 0, status |-> "none"]
\* a default-constructed DownloadEntry
DefaultEntry == [id |-> 0, downloadedBytes |-> 0, status |-> "Queued"]
\* the records callers store for an id: queued with nothing downloaded, paused
\* after one buffer
EntryVersions(id) ==
    {[id |-> id, downloadedBytes |-> 0, status |-> "Queued"],
     [id |-> id, downloadedBytes |-> BUFFER_SIZE, status |-> "Paused"]}
NoEntries == [id \in EntryIds |-> NoEntry]

\* static_cast<int>(DownloadStatus) and back
DownloadStatusCode(st) ==
    CASE st = "Queued" -> 0 [] st = "Connecting" -> 1 [] st = "Downloading" -> 2
      [] st = "Paused" -> 3 [] st = "Complete" -> 4 [] st = "Error" -> 5
      [] st = "Waiting" -> 6 [] st = "Merging" -> 7
DownloadStatusOfCode(n) ==
    CASE n = 0 -> "Queued" [] n = 1 -> "Connecting" [] n = 2 -> "Downloading"
      [] n = 3 -> "Paused" [] n = 4 -> "Complete" [] n = 5 -> "Error"
      [] n = 6 -> "Waiting" [] n = 7 -> "Merging"

\* a line of the database file: a marker line, or key=value (the value of the
\* modelled keys is a number written in decimal)
Marker(text) == [key |-> text, eq |-> FALSE, value |-> 0]
KeyValue(key, value) == [key |-> key, eq |-> TRUE, value |-> value]

\* the block SaveToDisk writes for one entry
EntryBlock(e) ==
    <<Marker("BEGIN_ENTRY"),
      KeyValue("id", e.id),
      KeyValue("downloadedBytes", e.downloadedBytes),
      KeyValue("status", DownloadStatusCode(e.status)),
      Marker("END_ENTRY")>>

RECURSIVE EntryBlocks(_, _)
EntryBlocks(E, id) ==
    IF id > MaxEntries THEN << >>
    ELSE (IF E[id] # NoEntry THEN EntryBlock(E[id]) ELSE << >>) \o EntryBlocks(E, id + 1)

RECURSIVE CountEntries(_, _)
CountEntries(E, id) ==
    IF id > MaxEntries THEN 0
    ELSE (IF E[id] # NoEntry THEN 1 ELSE 0) + CountEntries(E, id + 1)

\* SaveToDisk: the header, one block per entry of the map in the order of the
\* ids, END_DB; the content is what the database file holds after the rename
SaveToDisk(E) ==
    <<Marker("IDMCLONE_DB_V1"), KeyValue("ENTRY_COUNT", CountEntries(E, 1)), Marker("---")>>
    \o EntryBlocks(E, 1) \o <<Marker("END_DB")>>

\* the lines after the first "---" line
RECURSIVE AfterSeparator(_)
AfterSeparator(lines) ==
    IF lines = << >> THEN << >>
    ELSE IF Head(lines) = Marker("---") THEN Tail(lines)
    ELSE AfterSeparator(Tail(lines))

\* the key dispatch of LoadFromDisk: a recognised key sets its field, any
\* other line of the block is skipped
ParseKey(cur, line) ==
    IF line.key = "id" THEN [cur EXCEPT !.id = line.value]
    ELSE IF line.key = "downloadedBytes" THEN [cur EXCEPT !.downloadedBytes = line.value]
    ELSE IF line.key = "status" THEN [cur EXCEPT !.status = DownloadStatusOfCode(line.value)]
    ELSE cur

\* the entry loop of LoadFromDisk
RECURSIVE ParseEntries(_, _, _, _)
ParseEntries(lines, E, cur, inEntry) ==
    IF lines = << >> THEN E
    ELSE LET line == Head(lines)
             rest == Tail(lines)
         IN IF line = Marker("END_DB") THEN E
            ELSE IF line = Marker("BEGIN_ENTRY") THEN ParseEntries(rest, E, DefaultEntry, TRUE)
            ELSE IF line = Marker("END_ENTRY")
            THEN ParseEntries(rest,
                              IF inEntry /\ cur.id # 0 THEN [E EXCEPT ![cur.id] = cur] ELSE E,
                              cur, FALSE)
            ELSE IF ~inEntry \/ ~line.eq THEN ParseEntries(rest, E, cur, inEntry)
            ELSE ParseEntries(rest, E, ParseKey(cur, line), inEntry)

\* LoadFromDisk into the map E: fails on a wrong first line
LoadFromDisk(file, E) ==
    IF file = << >> \/ Head(file) # Marker("IDMCLONE_DB_V1")
    THEN [ok |-> FALSE, entries |-> E]
    ELSE [ok |-> TRUE, entries |-> ParseEntries(AfterSeparator(Tail(file)), E, DefaultEntry, FALSE)]

\* ReplayJournal: logs a message and returns; nothing is read from the journal
ReplayJournal(E, journal) == E

\* Open() on a clean disk: the empty database file is created
DbInit ==
    /\ CoreIdle
    /\ RestIdle({"db"})
    /\ db = [m_entries |-> NoEntries, m_dirty |-> FALSE,
             file |-> SaveToDisk(NoEntries), journal |-> << >>,
             up |-> TRUE, before |-> NoEntries, flushed |-> NoEntries, last |-> "open"]

dbUnchanged == UNCHANGED <<coreVars, limiter, limEnv, call, fs, rm, mx, lk>>

\* AddEntry: the map, the dirty flag and one journal record
AddEntry(e) ==
    /\ db.up
    /\ Len(db.journal) < MaxJournal
    /\ db' = [db EXCEPT !.before = db.m_entries,
                        !.m_entries[e.id] = e,
                        !.m_dirty = TRUE,
                        !.journal = Append(@, [operation |-> "ADD", id |-> e.id]),
                        !.last = "add"]
    /\ dbUnchanged

\* UpdateEntry of an entry that is in the map: the map and the dirty flag
UpdateEntry(e) ==
    /\ db.up
    /\ db.m_entries[e.id] # NoEntry
    /\ db' = [db EXCEPT !.before = db.m_entries,
                        !.m_entries[e.id] = e,
                        !.m_dirty = TRUE,
                        !.last = "update"]
    /\ dbUnchanged

\* UpdateProgress of an entry that is in the map: its downloadedBytes and the
\* dirty flag
DbUpdateProgress(id, downloadedBytes) ==
    /\ db.up
    /\ db.m_entries[id] # NoEntry
    /\ db' = [db EXCEPT !.before = db.m_entries,
                        !.m_entries[id].downloadedBytes = downloadedBytes,
                        !.m_dirty = TRUE,
                        !.last = "update_progress"]
    /\ dbUnchanged

\* RemoveEntry of an entry that is in the map: the map and the dirty flag
RemoveEntry(id) ==
    /\ db.up
    /\ db.m_entries[id] # NoEntry
    /\ db' = [db EXCEPT !.before = db.m_entries,
                        !.m_entries[id] = NoEntry,
                        !.m_dirty = TRUE,
                        !.last = "remove"]
    /\ dbUnchanged

\* Flush: when dirty, SaveToDisk and CleanJournal
Flush ==
    /\ db.up
    /\ IF db.m_dirty
       THEN db' = [db EXCEPT !.file = SaveToDisk(db.m_entries),
                             !.m_dirty = FALSE,
                             !.journal = << >>,
                             !.flushed = db.m_entries,
                             !.last = "flush"]
       ELSE db' = [db EXCEPT !.last = "flush"]
    /\ dbUnchanged

\* the process stops between two calls; the files stay as they are
DbCrash ==
    /\ db.up
    /\ db' = [db EXCEPT !.up = FALSE, !.last = "crash"]
    /\ dbUnchanged

\* faulty variant: the new content is written over the database file itself,
\* so a stop leaves the first k new lines followed by the old lines after them
FlushCrashFiles_Overwrite(old, new) ==
    {SubSeq(new, 1, k) \o SubSeq(old, k + 1, Len(old)) : k \in 0 .. Len(new)}
\* what the database file holds when the process stops inside SaveToDisk: the
\* new content goes to the .tmp file, which then replaces the database file by
\* MoveFileEx; when that fails the database file is deleted before the rename
FlushCrashFiles(old, new) == {old, new, << >>}

\* the process stops inside a Flush that found the dirty flag set
FlushCrash ==
    /\ db.up
    /\ db.m_dirty
    /\ \E f \in FlushCrashFiles(db.file, SaveToDisk(db.m_entries)) :
          db' = [db EXCEPT !.file = f, !.up = FALSE, !.last = "crash_in_flush"]
    /\ dbUnchanged

\* Open() by the next process: ReplayJournal when the journal exists, then
\* LoadFromDisk into the empty map, or SaveToDisk when there is no file
DbOpen ==
    /\ ~db.up
    /\ LET replayed == IF db.journal # << >> THEN ReplayJournal(NoEntries, db.journal)
                                             ELSE NoEntries
           E == IF db.file # << >> THEN LoadFromDisk(db.file, replayed).entries ELSE replayed
       IN db' = [db EXCEPT !.m_entries = E, !.before = E, !.m_dirty = FALSE, !.up = TRUE,
                           !.file = IF db.file # << >> THEN db.file ELSE SaveToDisk(E),
                           !.flushed = E,
                           !.last = IF db.last = "crash_in_flush"
                                    THEN "open_after_flush_crash" ELSE "open_after_crash"]
    /\ dbUnchanged

DbNext ==
    \/ \E id \in EntryIds : \E e \in EntryVersions(id) : AddEntry(e)
    \/ \E id \in EntryIds : \E e \in EntryVersions(id) : UpdateEntry(e)
    \/ \E id \in EntryIds, bytes \in {0, BUFFER_SIZE} : DbUpdateProgress(id, bytes)
    \/ \E id \in EntryIds : RemoveEntry(id)
    \/ Flush
    \/ DbCrash
    \/ FlushCrash
    \/ DbOpen

SpecDb == DbInit /\ [][DbNext]_vars

\* ---- a database file written by a later version, loaded and saved again ----
\* the keys LoadFromDisk dispatches on
RecognisedKeys ==
    {"id", "url", "finalUrl", "fileName", "savePath", "fileSize", "downloadedBytes", "status",
     "category", "description", "referrer", "userAgent", "numConnections", "resumeSupported",
     "etag", "lastModified", "errorMessage", "retryCount", "queueId", "checksum",
     "checksumType", "seg"}
\* keys and values of lines this version does not know
FutureKeys == {"priority", "mirror"}
FutureValues == {0, 1}

InsertAt(lines, p, line) == SubSeq(lines, 1, p) \o <<line>> \o SubSeq(lines, p + 1, Len(lines))

\* database files with one entry whose block holds one line with a future key
FutureFiles ==
    {<<Marker("IDMCLONE_DB_V1"), KeyValue("ENTRY_COUNT", 1), Marker("---")>>
       \o InsertAt(EntryBlock([id |-> id, downloadedBytes |-> bytes, status |-> st]), p,
                   KeyValue(k, v))
       \o <<Marker("END_DB")>> :
     id \in EntryIds, bytes \in {0, BUFFER_SIZE}, st \in {"Queued", "Paused", "Complete"},
     p \in 1 .. 4, k \in FutureKeys, v \in FutureValues}

DbFileInit ==
    /\ CoreIdle
    /\ RestIdle({"call"})
    /\ call \in [args : {<<f>> : f \in FutureFiles}, returned : {FALSE}, result : {<< >>}]

\* Open (LoadFromDisk into the empty map) followed by a save of the loaded map
LoadAndSave ==
    /\ ~call.returned
    /\ call' = [call EXCEPT
                   !.returned = TRUE,
                   !.result = SaveToDisk(LoadFromDisk(call.args[1], NoEntries).entries)]
    /\ UNCHANGED <<coreVars, limiter, limEnv, db, fs, rm, mx, lk>>

SpecDbFile == DbFileInit /\ [][LoadAndSave]_vars

\* ---- FileAssembler: Finalize and GenerateUniqueName ----
\* File names of the download directory are numbers: 0 is targetPath, i >= 1
\* is "stem(i)ext". A file holds "other" (it was there before), or "call1" /
\* "call2" (the data of the partial file, put there by that call of Finalize).
Names == 0 .. MaxName
NoPath == 0 - 1
UniqueNameLimit == 10000
TimestampName == UniqueNameLimit
ConflictResolution == {"AutoRename", "Overwrite", "Skip"}

Exists(files, n) == n \in DOMAIN files /\ files[n] # "none"

RECURSIVE UniqueNameFrom(_, _)
UniqueNameFrom(files, i) ==
    IF i >= UniqueNameLimit THEN TimestampName
    ELSE IF ~Exists(files, i) THEN i
    ELSE UniqueNameFrom(files, i + 1)

GenerateUniqueName(files) == UniqueNameFrom(files, 1)

PutFile(files, n, content) ==
    [m \in DOMAIN files \cup {n} |-> IF m = n THEN content ELSE files[m]]

\* outcomes of MoveFileExW(REPLACE_EXISTING | COPY_ALLOWED): "moved", "copied"
\* (the data was copied and the source could not be deleted: the call
\* succeeds and leaves the source), "failed"
MoveOutcomes(f) == IF f.partial THEN {"moved", "copied", "failed"} ELSE {"failed"}

\* the path Finalize writes to
FinalPath(f) ==
    IF Exists(f.files, 0) /\ f.mode = "AutoRename"
    THEN GenerateUniqueName(f.files)
    ELSE 0

\* Finalize(partialPath, targetPath, conflictMode) with the outcomes of its
\* file operations: MoveFileExW, CopyFileW (copyOk), DeleteFileW of the
\* partial file (deleteOk, its result is ignored)
FinalizeFiles(f, move, copyOk, deleteOk) ==
    LET content == IF f.results = << >> THEN "call1" ELSE "call2"
        cleared == IF Exists(f.files, 0) /\ f.mode = "Overwrite"
                   THEN PutFile(f.files, 0, "none")
                   ELSE f.files
        final == FinalPath(f)
    IN IF Exists(f.files, 0) /\ f.mode = "Skip"
       THEN [f EXCEPT !.partial = f.partial /\ ~deleteOk,
                      !.results = Append(f.results, 0)]
       ELSE IF move = "moved"
       THEN [f EXCEPT !.partial = FALSE,
                      !.files = PutFile(cleared, final, content),
                      !.results = Append(f.results, final)]
       ELSE IF move = "copied"
       THEN [f EXCEPT !.files = PutFile(cleared, final, content),
                      !.results = Append(f.results, final)]
       ELSE IF f.partial /\ copyOk
       THEN [f EXCEPT !.partial = ~deleteOk,
                      !.files = PutFile(cleared, final, content),
                      !.results = Append(f.results, final)]
       ELSE [f EXCEPT !.files = cleared,
                      !.results = Append(f.results, NoPath)]

FinalizeInit ==
    /\ CoreIdle
    /\ RestIdle({"fs"})
    /\ \E before \in [Names -> {"none", "other"}], mode \in ConflictResolution :
          fs = [partial |-> TRUE, files |-> before, results |-> << >>,
                before |-> before, mode |-> mode]

\* one call of Finalize with the same two paths; the property is about two
FinalizeCall ==
    /\ Len(fs.results) < 2
    /\ \E move \in MoveOutcomes(fs), copyOk \in BOOLEAN, deleteOk \in BOOLEAN :
          fs' = FinalizeFiles(fs, move, copyOk, deleteOk)
    /\ UNCHANGED <<coreVars, limiter, limEnv, db, call, rm, mx, lk>>

SpecFinalize == FinalizeInit /\ [][FinalizeCall]_vars

\* ---- ResumeEngine::ValidateResume ----
\* validators: the empty string is "none"; lengths: -1 is "unknown"
Validators == {"", "v1", "v2"}
Lengths == {0 - 1, MIN_SEGMENT_SIZE, MIN_SEGMENT_SIZE + 1}

\* ValidateResume(client, entry): headOk is what client.Head returned and
\* response what it filled in; the result is the return value and the entry
ValidateResume(headOk, response, e) ==
    IF ~headOk THEN [resumable |-> FALSE, entry |-> e]
    ELSE IF ~response.acceptRanges
    THEN [resumable |-> FALSE, entry |-> [e EXCEPT !.resumeSupported = FALSE]]
    ELSE IF e.etag # "" /\ response.etag # "" /\ e.etag # response.etag
    THEN [resumable |-> FALSE, entry |-> e]
    ELSE IF e.lastModified # "" /\ response.lastModified # ""
            /\ e.lastModified # response.lastModified
    THEN [resumable |-> FALSE, entry |-> e]
    ELSE IF e.fileSize > 0 /\ response.contentLength > 0
            /\ e.fileSize # response.contentLength
    THEN [resumable |-> FALSE, entry |-> e]
    ELSE [resumable |-> TRUE,
          entry |-> [etag |-> IF response.etag # "" THEN response.etag ELSE e.etag,
                     lastModified |-> IF response.lastModified # ""
                                      THEN response.lastModified ELSE e.lastModified,
                     fileSize |-> IF response.contentLength > 0
                                  THEN response.contentLength ELSE e.fileSize,
                     resumeSupported |-> TRUE]]

ValidateInit ==
    /\ CoreIdle
    /\ RestIdle({"call"})
    /\ \E headOk \in BOOLEAN,
          response \in [acceptRanges : BOOLEAN, etag : Validators,
                        lastModified : Validators, contentLength : Lengths],
          e \in [etag : Validators, lastModified : Validators, fileSize : Lengths,
                 resumeSupported : BOOLEAN] :
          call = [args |-> [headOk |-> headOk, response |-> response, entry |-> e],
                  returned |-> FALSE,
                  result |-> [resumable |-> FALSE, entry |-> e]]

CallValidateResume ==
    /\ ~call.returned
    /\ call' = [call EXCEPT
                   !.returned = TRUE,
                   !.result = ValidateResume(call.args.headOk, call.args.response,
                                             call.args.entry)]
    /\ UNCHANGED <<coreVars, limiter, limEnv, db, fs, rm, mx, lk>>

SpecValidate == ValidateInit /\ [][CallValidateResume]_vars

\* ---- threads and mutexes: observer list, SegmentManager, Database ----
\* Each thread is idle or inside one call. A mutex field names the thread
\* that holds it (NoThread: free). pc: "notify" inside NOTIFY_OBSERVERS,
\* "callback" inside obs->method(...), "save_state" inside
\* SegmentManager::SaveState with the snapshot file open, "flush" inside
\* Database::SaveToDisk called by Flush.
Threads == 1 .. NumThreads
Observers == 1 .. NumObservers
NoThread == 0
NoObserver == 0

Min(S) == CHOOSE x \in S : \A y \in S : x <= y

mxUnchanged == UNCHANGED <<coreVars, limiter, limEnv, db, call, fs, rm, lk>>

MxInit ==
    /\ CoreIdle
    /\ RestIdle({"mx"})
    /\ mx = [observers |-> {},
             m_dirty |-> FALSE,
             observerMutex |-> NoThread,
             smMutex |-> NoThread,
             dbMutex |-> NoThread,
             pc |-> [t \in Threads |-> "idle"],
             todo |-> [t \in Threads |-> {}],
             cur |-> [t \in Threads |-> NoObserver]]

\* AddObserver: Lock lock(m_observerMutex); m_observers.push_back(observer)
AddObserver(t, o) ==
    /\ mx.pc[t] = "idle"
    /\ mx.observerMutex = NoThread
    /\ o \notin mx.observers
    /\ mx' = [mx EXCEPT !.observers = @ \cup {o}]
    /\ mxUnchanged

\* RemoveObserver: Lock lock(m_observerMutex); erase(remove(...))
RemoveObserver(t, o) ==
    /\ mx.pc[t] = "idle"
    /\ mx.observerMutex = NoThread
    /\ o \in mx.observers
    /\ mx' = [mx EXCEPT !.observers = @ \ {o}]
    /\ mxUnchanged

\* NOTIFY_OBSERVERS: { Lock lock(m_observerMutex);
NotifyLock(t) ==
    /\ mx.pc[t] = "idle"
    /\ mx.observerMutex = NoThread
    /\ mx' = [mx EXCEPT !.observerMutex = t,
                        !.pc[t] = "notify",
                        !.todo[t] = mx.observers]
    /\ mxUnchanged

\* for (auto* obs : m_observers) { obs->method(...)
NotifyInvoke(t) ==
    /\ mx.pc[t] = "notify"
    /\ mx.todo[t] # {}
    /\ mx' = [mx EXCEPT !.pc[t] = "callback",
                        !.cur[t] = Min(mx.todo[t]),
                        !.todo[t] = @ \ {Min(mx.todo[t])}]
    /\ mxUnchanged

\* the callback returns into the loop
CallbackReturn(t) ==
    /\ mx.pc[t] = "callback"
    /\ mx' = [mx EXCEPT !.pc[t] = "notify", !.cur[t] = NoObserver]
    /\ mxUnchanged

\* end of the loop and of the block: the Lock is destroyed
NotifyUnlock(t) ==
    /\ mx.pc[t] = "notify"
    /\ mx.todo[t] = {}
    /\ mx' = [mx EXCEPT !.observerMutex = NoThread, !.pc[t] = "idle"]
    /\ mxUnchanged

\* SegmentManager::SaveState: RecursiveLock lock(m_mutex); std::ofstream file(...)
SaveStateOpen(t) ==
    /\ mx.pc[t] = "idle"
    /\ mx.smMutex = NoThread
    /\ mx' = [mx EXCEPT !.smMutex = t, !.pc[t] = "save_state"]
    /\ mxUnchanged

\* file.flush(); return true: the file and the lock are released
SaveStateReturn(t) ==
    /\ mx.pc[t] = "save_state"
    /\ mx' = [mx EXCEPT !.smMutex = NoThread, !.pc[t] = "idle"]
    /\ mxUnchanged

\* Database::UpdateEntry and the other mutators: lock, change the map, m_dirty = true
MarkDirty(t) ==
    /\ mx.pc[t] = "idle"
    /\ mx.dbMutex = NoThread
    /\ ~mx.m_dirty
    /\ mx' = [mx EXCEPT !.m_dirty = TRUE]
    /\ mxUnchanged

\* Database::Flush: RecursiveLock lock(m_mutex); m_dirty holds; SaveToDisk() is entered
FlushSaveToDisk(t) ==
    /\ mx.pc[t] = "idle"
    /\ mx.dbMutex = NoThread
    /\ mx.m_dirty
    /\ mx' = [mx EXCEPT !.dbMutex = t, !.pc[t] = "flush"]
    /\ mxUnchanged

\* SaveToDisk returned: m_dirty = false (when it succeeded), the lock is released
FlushReturn(t, result) ==
    /\ mx.pc[t] = "flush"
    /\ mx' = [mx EXCEPT !.dbMutex = NoThread,
                        !.pc[t] = "idle",
                        !.m_dirty = IF result THEN FALSE ELSE @]
    /\ mxUnchanged

MxNext ==
    \E t \in Threads :
        \/ \E o \in Observers : AddObserver(t, o)
        \/ \E o \in Observers : RemoveObserver(t, o)
        \/ NotifyLock(t)
        \/ NotifyInvoke(t)
        \/ CallbackReturn(t)
        \/ NotifyUnlock(t)
        \/ SaveStateOpen(t)
        \/ SaveStateReturn(t)
        \/ MarkDirty(t)
        \/ FlushSaveToDisk(t)
        \/ \E result \in BOOLEAN : FlushReturn(t, result)

SpecMx == MxInit /\ [][MxNext]_vars

\* ---- the order in which the engine's threads take its mutexes ----
\* An operation is the sequence of its lock and unlock steps, in program
\* order; consecutive calls that take and release the same single mutex are
\* written once. Observer callbacks (between the lock and the unlock of the
\* observer mutex) take no mutex of the engine.
Mutexes == {"downloads", "segments", "database", "observer", "limiter"}
Lock(m) == <<"lock", m>>
Unlock(m) == <<"unlock", m>>
Once(m) == << Lock(m), Unlock(m) >>

\* StartDownload: m_downloadsMutex for the whole call; GetEntry/UpdateEntry;
\* NotifyResumed or NotifyStarted
StartDownloadLocks ==
    << Lock("downloads") >> \o Once("database") \o Once("observer") \o << Unlock("downloads") >>

\* PauseDownload: m_downloadsMutex for the whole call; GetEntry/UpdateEntry on
\* the inactive branch; NotifyPaused
PauseDownloadLocks ==
    << Lock("downloads") >> \o Once("database") \o Once("observer") \o << Unlock("downloads") >>

\* StopDownload, and each round of StopAll's wait loop
StopDownloadLocks == Once("downloads")

\* GetDownload: m_downloadsMutex, then m_database.GetEntry
GetDownloadLocks ==
    << Lock("downloads") >> \o Once("database") \o << Unlock("downloads") >>

\* DownloadWorker: lookup; UpdateEntry; RestoreState or Initialize; phase 5
\* (UpdateEntry, SaveState, Notify*); erase
DownloadWorkerLocks ==
    Once("downloads") \o Once("database") \o Once("segments") \o Once("database")
    \o Once("segments") \o Once("observer") \o Once("downloads")

\* ConnectionWorker: lookup; RequestSegment; RequestBytes; GetSegments and
\* UpdateProgress; NotifyProgress; m_database.UpdateProgress; MarkComplete or
\* MarkError
ConnectionWorkerLocks ==
    Once("downloads") \o Once("segments") \o Once("limiter") \o Once("segments")
    \o Once("observer") \o Once("database") \o Once("segments")

\* SpeedMonitorThread: GetSegments under m_downloadsMutex; then
\* UpdateCurrentTotalSpeed and NotifySpeed
SpeedMonitorThreadLocks ==
    << Lock("downloads") >> \o Once("segments") \o << Unlock("downloads") >>
    \o Once("limiter") \o Once("observer")

\* faulty variant: the database is flushed first and the downloads mutex is
\* taken under the database mutex
StatePersistThreadLocks_FlushFirst ==
    << Lock("database"), Lock("downloads") >> \o Once("segments")
    \o << Unlock("downloads"), Unlock("database") >>
\* StatePersistThread: SaveState of each download and m_database.Flush, all
\* under m_downloadsMutex
StatePersistThreadLocks ==
    << Lock("downloads") >> \o Once("segments") \o Once("database") \o << Unlock("downloads") >>

Operations ==
    {"StartDownload", "PauseDownload", "StopDownload", "GetDownload", "DownloadWorker",
     "ConnectionWorker", "SpeedMonitorThread", "StatePersistThread"}

Program(op) ==
    CASE op = "StartDownload" -> StartDownloadLocks
      [] op = "PauseDownload" -> PauseDownloadLocks
      [] op = "StopDownload" -> StopDownloadLocks
      [] op = "GetDownload" -> GetDownloadLocks
      [] op = "DownloadWorker" -> DownloadWorkerLocks
      [] op = "ConnectionWorker" -> ConnectionWorkerLocks
      [] op = "SpeedMonitorThread" -> SpeedMonitorThreadLocks
      [] op = "StatePersistThread" -> StatePersistThreadLocks
      [] OTHER -> << >>

\* the steps thread t has executed, and the one it is at
Done(t) == SubSeq(Program(lk[t].op), 1, lk[t].pc)
AtEnd(t) == lk[t].pc = Len(Program(lk[t].op))
NextStep(t) == Program(lk[t].op)[lk[t].pc + 1]

Holds(t, m) ==
    Cardinality({i \in DOMAIN Done(t) : Done(t)[i] = Lock(m)})
        > Cardinality({i \in DOMAIN Done(t) : Done(t)[i] = Unlock(m)})
HeldBy(t) == {m \in Mutexes : Holds(t, m)}

\* t is at a lock of a mutex that u holds
WaitsFor(t, u) ==
    /\ ~AtEnd(t)
    /\ NextStep(t)[1] = "lock"
    /\ Holds(u, NextStep(t)[2])

LocksInit ==
    /\ CoreIdle
    /\ RestIdle({"lk"})
    /\ lk = [t \in Threads |-> [op |-> "idle", pc |-> 0]]

lkUnchanged == UNCHANGED <<coreVars, limiter, limEnv, db, call, fs, rm, mx>>

\* a thread enters an operation
Enter(t, op) ==
    /\ lk[t].op = "idle"
    /\ lk' = [lk EXCEPT ![t] = [op |-> op, pc |-> 0]]
    /\ lkUnchanged

\* the next lock (when no other thread holds the mutex) or unlock of t
LockStep(t) ==
    /\ lk[t].op # "idle"
    /\ ~AtEnd(t)
    /\ \A u \in Threads \ {t} : ~WaitsFor(t, u)
    /\ lk' = [lk EXCEPT ![t].pc = @ + 1]
    /\ lkUnchanged

\* the operation returns
Leave(t) ==
    /\ lk[t].op # "idle"
    /\ AtEnd(t)
    /\ lk' = [lk EXCEPT ![t] = [op |-> "idle", pc |-> 0]]
    /\ lkUnchanged

LocksNext ==
    \E t \in Threads :
        \/ \E op \in Operations : Enter(t, op)
        \/ LockStep(t)
        \/ Leave(t)

SpecLocks == LocksInit /\ [][LocksNext]_vars

\* ---- observations used by the engine-level properties ----
\* every offset of [lo, hi) lies in an interval of W
Covered(W, lo, hi) == lo >= hi \/ \E iv \in W : iv[1] <= lo /\ hi <= iv[2]

\* the segment worker c was assigned, as it is in list S
AssignedStatus(S, c) ==
    LET k == IndexOfId(S, assign[c].newSegmentId)
    IN IF k = 0 THEN "none" ELSE S[k].status

\* all connection threads of the download were launched and have ended
Drained == \A c \in Launched : wpc[c] = "exited"

\* C2 (No overwrite): the byte intervals written by two different workers of
\* the same download during range requests that are in progress at the same
\* time are disjoint, in every interleaving, including a worker that is still
\* streaming a range request sent before a split shrank its segment.
C2_NoOverwrite ==
    \A c1, c2 \in Conns : c1 # c2 => ~Overlap(writtenBy[c1], writtenBy[c2])

\* C3 (Completion implies coverage of writes): when IsComplete() is true every
\* offset of [0, fileSize) has been written, and no segment is Complete while
\* an offset of its range [start, end] was never written.
C3_CompletionCoversWrites ==
    /\ (IsComplete(segs) /\ m_fileSize > 0) => Covered(written, 0, m_fileSize)
    /\ \A i \in DOMAIN segs :
          segs[i].status = "Complete" => Covered(written, segs[i].startByte, segs[i].endByte + 1)

\* C6 (Accounting): at every progress notification and at every snapshot write
\* (the periodic save and the save on Paused/Error) the entry's downloadedBytes
\* equals the sum over the segments of (cursor - start).
C6_Accounting ==
    acct.kind # "none" => acct.entryBytes = acct.segBytes

\* C7 (Terminate on completion): when all workers have drained and the segment
\* map is complete, the step the orchestrator takes puts the entry in Merging,
\* also when pause or stop was requested meanwhile.
C7_TerminateOnCompletion ==
    [][(opc = "running" /\ Drained /\ IsComplete(segs) /\ opc' # "running")
          => entry'.status = "Merging"]_vars

\* C8 (Server-changed resume): when a start finds a snapshot of an earlier
\* session and the probe's ETag differs from the entry's cached ETag, the
\* snapshot is not loaded, partial and snapshot are discarded and the segment
\* map is a single Pending segment with cursor 0.
C8_ServerChangedResume ==
    (opc = "open" /\ startInfo.hadSnapshot /\ startInfo.cachedEtag # entry.etag)
       => /\ ~startInfo.resumed
          /\ segs = InitialSegments(entry.fileSize)
          /\ ~segFile.exists
          /\ ~partialExists

\* C9 (Permanent server errors): a worker whose range GET was answered with
\* 401, 403, 404 or 410 leaves the request by marking its segment Error and
\* exiting, without a retry.
C9_PermanentErrors ==
    [][\A c \in Conns :
          (wpc[c] = "streaming" /\ resp[c] \in PermanentStatuses /\ wpc'[c] # "streaming")
             => (wpc'[c] = "exited" /\ AssignedStatus(segs', c) = "Error")]_vars

\* the end of a paused or stopped download: workers gone, entry Paused, the
\* snapshot file holds the segment map as it is after the drain
PausedAndSaved ==
    /\ opc = "done"
    /\ Drained
    /\ entry.status = "Paused"
    /\ segFile = SaveState(segs, m_fileSize)

RECURSIVE WorkLeft(_)
WorkLeft(C) ==
    IF C = {} THEN (IF opc = "running" THEN 1 ELSE 0)
    ELSE LET c == CHOOSE x \in C : TRUE
         IN (CASE wpc[c] = "streaming" -> 2 [] wpc[c] = "loop" -> 1 [] OTHER -> 0)
            + WorkLeft(C \ {c})

C11_ResumeAfterPause ==
    [][(active /\ paused /\ ~paused') => (opc' = "probe" /\ ~cancelled')]_vars

\* C12 (Probe failure): once the probe of a start has failed (transport
\* failure, recorded as -1, or a status >= 400) the orchestrator is done and
\* the download is no longer active, the failing step took the entry from
\* Connecting to Error, exactly one error event was emitted for the start, no
\* connection worker was started, and the partial file is as the start found it.
C12_ProbeFailure ==
    [][(startInfo'.probe = -1 \/ startInfo'.probe >= 400) =>
         /\ opc = "probe" => /\ entry.status = "Connecting"
                             /\ entry'.status = "Error"
                             /\ dbEntry'.status = "Error"
         /\ opc' = "done"
         /\ ~active'
         /\ errorEvents' = 1
         /\ \A c \in Conns : wpc'[c] = "idle"
         /\ partialExists' = startInfo'.hadPartial
         /\ written' = written]_vars

\* a start whose probe was answered 404 has ended in Error with one error event
C12_Witness ==
    /\ opc = "done"
    /\ startInfo.probe = 404
    /\ entry.status = "Error"
    /\ errorEvents = 1
    /\ ~partialExists

\* C14 (Plan): once the connection workers of a start are launched, their
\* number and the segment manager's maxConnections both equal the requested
\* count clamped to 1..MAX_CONNECTIONS when the probe advertised accept-ranges
\* and the size is known, and both equal 1 otherwise.
Clamp(x, lo, hi) == IF x < lo THEN lo ELSE IF x > hi THEN hi ELSE x
C14_Plan ==
    opc = "running" =>
        LET planned == IF server.acceptRanges /\ entry.fileSize > 0
                       THEN Clamp(dbEntry.numConnections, 1, MAX_CONNECTIONS)
                       ELSE 1
        IN /\ startInfo.workers = planned
           /\ m_maxConnections = planned

\* C15 (Backoff): GetRetryDelay(n, base) returns min(base * 2^(n-1), 300)
\* for every attempt number n >= 1 and every base >= 1.
C15_Backoff ==
    call.returned =>
        LET n == call.args[1]
            base == call.args[2]
            stated == base * 2 ^ (n - 1)
        IN call.result = IF stated < 300 THEN stated ELSE 300

\* C16 (Retry ceiling): failures are counted per segment assignment: when a
\* worker is handed a segment other than the one its last attempt failed on,
\* its failure count starts again at zero.
C16_RetryCeiling ==
    [][\A c \in Conns :
          (wpc[c] = "loop" /\ wpc'[c] = "streaming"
             /\ assign'[c].newSegmentId # lastFailed[c])
          => retryCount'[c] = 0]_vars

\* C17 (Rate cap): with the limiter set to rate R (burst 2 * R), the values
\* RequestBytes returned to all callers within the 2 seconds after the limit
\* was set add up to at most 2 * R + burst.
C17_RateCap ==
    limEnv.now <= WindowTicks => limEnv.admitted <= RateCap

C19_AtomicSnapshotWrite ==
    [][(opc # "crashed" /\ opc' = "crashed")
         => (segFile' = segFile \/ segFile' = SaveState(segs, m_fileSize))]_vars

\* C20 (Durability): the state the next Open reconstructs after a crash holds
\* every add, update and remove that had returned, except possibly the last
\* one: it is the map as the returned calls left it, or as it was before the
\* last of them.
C20_Durability ==
    [][(~db.up /\ db'.up) => db'.m_entries \in {db.m_entries, db.before}]_vars

\* C21 (Journal safety): the map the next Open reconstructs after the process
\* stopped (between calls or inside a flush) holds for every id the whole
\* record as the returned calls left it, or the whole record as the last
\* completed save or Open had it, or no record; never a record mixing the two.
C21_JournalSafety ==
    [][(~db.up /\ db'.up) =>
         \A id \in EntryIds :
            db'.m_entries[id] \in {db.m_entries[id], db.flushed[id], NoEntry}]_vars

\* an Open after a stop inside a flush that had already replaced the database
\* file: an entry changed since the flush before is loaded with the change
C21_Witness ==
    /\ db.up
    /\ db.last = "open_after_flush_crash"
    /\ db.journal # << >>
    /\ \E id \in EntryIds : db.m_entries[id].status = "Paused"

\* C22 (Write-ahead order): every call that changes an entry of the in-memory
\* map (add, update, update_progress, remove) appends one journal line naming
\* the operation and that entry's id.
C22_WriteAheadOrder ==
    [][(db.up /\ db'.up /\ db'.m_entries # db.m_entries) =>
         \E id \in EntryIds :
            /\ db'.m_entries[id] # db.m_entries[id]
            /\ \E op \in {"ADD", "UPDATE", "PROGRESS", "REMOVE"} :
                  db'.journal = Append(db.journal, [operation |-> op, id |-> id])]_vars

\* C23 (Journal recovery): when a journal file existed at Open, a flush that
\* follows the Open with no mutation in between rewrites the database file
\* from the map and removes the journal.
C23_JournalRecovery ==
    [][(db.up /\ db.last \in {"open", "open_after_crash", "open_after_flush_crash"}
          /\ db.journal # << >> /\ db'.last = "flush")
         => (db'.journal = << >> /\ db'.file = SaveToDisk(db.m_entries))]_vars

\* C24 (Forward compatibility): every key=value line of an entry whose key is
\* not a recognised key is found unchanged in the file saved after loading.
C24_ForwardCompatibility ==
    call.returned =>
        \A i \in DOMAIN call.args[1] :
           (call.args[1][i].eq /\ call.args[1][i].key \notin RecognisedKeys \cup {"ENTRY_COUNT"})
           => \E j \in DOMAIN call.result : call.result[j] = call.args[1][i]

\* C25 (Idempotent finalize): after Finalize was called twice with the same
\* partial and target paths under AutoRename, at most one file of the
\* directory is new, and the file the first call produced still holds what
\* the first call put there.
NewFiles == {n \in DOMAIN fs.files : Exists(fs.files, n) /\ ~Exists(fs.before, n)}
C25_IdempotentFinalize ==
    (fs.mode = "AutoRename" /\ Len(fs.results) = 2) =>
        /\ Cardinality(NewFiles) <= 1
        /\ fs.results[1] # NoPath => fs.files[fs.results[1]] = "call1"

\* C26 (Causal event order): a step that delivers the paused event of the
\* download (PauseDownload, or the end of the download thread after a cancel)
\* leaves the entry with status Paused, in the database and in the thread's
\* copy when the thread is still running.
NotifyPausedStep ==
    \/ PauseDownload
    \/ Phase5 /\ PhaseFiveOutcome(cancelled, IsComplete(segs)) = "Paused"
C26_CausalEventOrder ==
    [][NotifyPausedStep => dbEntry'.status = "Paused"]_vars

\* C27 (Observer dispatch): no observer callback runs on a thread that holds
\* the observer-list mutex; the callbacks of an event are invoked after the
\* mutex taken to read the list has been released.
C27_ObserverDispatch ==
    \A t \in Threads : mx.pc[t] = "callback" => mx.observerMutex # t

\* C28 (No blocking under locks): a thread that is writing the snapshot file
\* or the database file holds neither the SegmentManager mutex nor the
\* database mutex.
C28_NoBlockingUnderLocks ==
    \A t \in Threads :
        mx.pc[t] \in {"save_state", "flush"} => (mx.smMutex # t /\ mx.dbMutex # t)

\* C29 (Remove with delete): once RemoveDownload(id, true) has returned and
\* the download's threads have all ended, neither the partial file nor the
\* snapshot file of the entry exists, also when the download was active when
\* RemoveDownload was called.
C29_RemoveWithDelete ==
    (rm = "removed" /\ ~active /\ Drained) => (~partialExists /\ segFile = NoFile)

\* C30 (Validation): ValidateResume returns resumable exactly when the HEAD
\* succeeded, the server advertises byte ranges, the ETags are equal when the
\* entry and the response both have one, the Last-Modified values are equal
\* when both have one and the ETags could not be compared, and the content
\* length is the entry's when both are known.
BothHave(a, b) == a # "" /\ b # ""
C30_Validation ==
    call.returned =>
        LET e == call.args.entry
            r == call.args.response
        IN call.result.resumable <=>
              /\ call.args.headOk
              /\ r.acceptRanges
              /\ BothHave(e.etag, r.etag) => e.etag = r.etag
              /\ (~BothHave(e.etag, r.etag) /\ BothHave(e.lastModified, r.lastModified))
                    => e.lastModified = r.lastModified
              /\ (e.fileSize > 0 /\ r.contentLength > 0) => e.fileSize = r.contentLength

\* C39 (MarkComplete): a call MarkComplete(segmentId) leaves the segment with
\* status Complete and with no owner (connectionId reset to unassigned).
C39_MarkComplete ==
    [][\A id \in SegIds(segs) :
          SMMarkComplete(id) =>
              LET k == IndexOfId(segs', id)
              IN segs'[k].status = "Complete" /\ segs'[k].connectionId = NoConn]_vars

\* C36 (One Active segment per worker): every connection id is the owner of
\* at most one segment with status Active.
OwnedActive(S, c) == {i \in DOMAIN S : S[i].status = "Active" /\ S[i].connectionId = c}
C36_OneActivePerWorker ==
    \A c \in Conns : Cardinality(OwnedActive(segs, c)) <= 1
\* a worker that completed one segment is the owner of another, Active one
C36_Witness ==
    \E c \in Conns :
        /\ Cardinality(OwnedActive(segs, c)) = 1
        /\ \E i \in DOMAIN segs : segs[i].status = "Complete" /\ segs[i].connectionId = c
        /\ wpc[c] = "streaming"

\* C34 (In-order assignment): in every reachable state of the segment manager
\* with fewer Active segments than maxConnections and a Pending or Error
\* segment, RequestSegment by any connection makes the first such segment of
\* the list Active with the caller as owner, changes nothing else (no split),
\* and returns that segment's id, its cursor as start and its end as end.
Waiting(S) == {i \in DOMAIN S : S[i].status \in {"Pending", "Error"}}
C34_InOrderAssignment ==
    (Cardinality(ActiveSegments(segs)) < m_maxConnections /\ Waiting(segs) # {}) =>
        \A c \in Conns :
            LET r == RequestSegment(segs, m_maxConnections, m_minSegmentSize,
                                    m_nextSegmentId, c)
            IN \E k \in Waiting(segs) :
                  /\ \A j \in Waiting(segs) : k <= j
                  /\ r.segs = [segs EXCEPT ![k].status = "Active", ![k].connectionId = c]
                  /\ r.nextId = m_nextSegmentId
                  /\ r.result.success
                  /\ r.result.newSegmentId = segs[k].id
                  /\ r.result.newStart = segs[k].currentPos
                  /\ r.result.newEnd = segs[k].endByte
\* a slot is free and the first waiting segment is an Error segment that is
\* not the head of the list and was partly downloaded; a later one waits too
C34_Witness ==
    /\ Cardinality(ActiveSegments(segs)) < m_maxConnections
    /\ \E k \in Waiting(segs) :
          /\ \A j \in Waiting(segs) : k <= j
          /\ k > 1
          /\ segs[k].status = "Error"
          /\ segs[k].currentPos > segs[k].startByte
          /\ \E j \in Waiting(segs) : j > k

\* C33 (Split feasibility): in every reachable state of the segment manager
\* with fewer Active segments than maxConnections, no Pending or Error
\* segment, and an Active segment whose remaining bytes are at least
\* 2 * minSegmentSize, RequestSegment by any connection performs a split and
\* returns the new segment.
C33_SplitFeasibility ==
    (/\ Cardinality(ActiveSegments(segs)) < m_maxConnections
     /\ Waiting(segs) = {}
     /\ \E i \in ActiveSegments(segs) : RemainingBytes(segs[i]) >= 2 * m_minSegmentSize) =>
        \A c \in Conns :
            LET r == RequestSegment(segs, m_maxConnections, m_minSegmentSize,
                                    m_nextSegmentId, c)
            IN /\ r.result.success
               /\ Len(r.segs) = Len(segs) + 1
               /\ r.result.newSegmentId = m_nextSegmentId

\* C32 (Split point): whenever RequestSegment splits a segment, in any
\* reachable state of the segment manager, the split point p is at least
\* cursor + minSegmentSize, and the parent's remaining range [cursor, p - 1]
\* and the new segment [p, oldEnd] each hold at least minSegmentSize bytes.
C32_SplitPoint ==
    \A c \in Conns :
        LET r == RequestSegment(segs, m_maxConnections, m_minSegmentSize,
                                m_nextSegmentId, c)
            k == IndexOfId(segs, r.result.parentSegmentId)
            p == r.result.newStart
        IN (r.result.success /\ k > 0) =>
              /\ p >= segs[k].currentPos + m_minSegmentSize
              /\ p - segs[k].currentPos >= m_minSegmentSize
              /\ segs[k].endByte - p + 1 >= m_minSegmentSize
              /\ r.result.newEnd = segs[k].endByte

\* C35 (Complete is absorbing): while the workers of a download run, a
\* segment whose status is Complete is still in the list with status Complete
\* after every step, whichever call the step makes (UpdateProgress, MarkError,
\* MarkComplete, RequestSegment), also when the segment was completed by
\* UpdateProgress while its worker's stream was running and the stream fails
\* afterwards.
C35_CompleteAbsorbing ==
    [][(opc = "running" /\ opc' = "running") =>
          \A i \in DOMAIN segs :
              segs[i].status = "Complete" =>
                  \E j \in DOMAIN segs' :
                      segs'[j].id = segs[i].id /\ segs'[j].status = "Complete"]_vars

\* C31 (Segment count bound): when a download of a file of known size with N
\* connection workers has completed (every segment Complete, all workers
\* ended), the segment list holds at most N segments, whatever the order in
\* which the workers ran.
C31_SegmentCountBound ==
    (/\ entry.status \in {"Merging", "Complete"}
     /\ IsComplete(segs)
     /\ Drained
     \* every byte of the file was received and written
     /\ Covered(written, 0, m_fileSize))
        => Len(segs) <= Cardinality(Launched)

\* C38 (Resume keeps the plan): once a start has restored the segment map
\* from a snapshot and launched its workers, the segment manager's
\* maxConnections is the number of connection workers launched for this start
\* and its minSegmentSize is the one Initialize would have set.
C38_ResumeKeepsPlan ==
    (startInfo.resumed /\ opc = "running") =>
        /\ m_maxConnections = startInfo.workers
        /\ m_minSegmentSize = MIN_SEGMENT_SIZE

\* C37 (Deadlock freedom): no set of engine threads is ever such that each
\* of them waits for a mutex held by another of the set; a thread takes the
\* downloads mutex only while it holds no other mutex, and holds at most one
\* of the SegmentManager, database, observer and limiter mutexes at a time.
Deadlocked(T) == T # {} /\ \A t \in T : \E u \in T : WaitsFor(t, u)
C37_DeadlockFreedom ==
    /\ \A T \in SUBSET Threads : ~Deadlocked(T)
    /\ \A t \in Threads :
          /\ Cardinality(HeldBy(t) \ {"downloads"}) <= 1
          /\ (~AtEnd(t) /\ NextStep(t) = Lock("downloads")) => HeldBy(t) = {}
\* a thread that holds the downloads mutex waits for a mutex held by a
\* download thread, which will ask for the downloads mutex before it ends
C37_Witness ==
    \E t, u \in Threads :
        /\ t # u
        /\ Holds(t, "downloads")
        /\ WaitsFor(t, u)
        /\ lk[u].op = "DownloadWorker"

\* C40 (Finalize failure leaves the target alone): a call of Finalize that
\* returns the empty path leaves a target file that existed before the call
\* in place with the content it had, under every conflict policy.
C40_FinalizeFailure ==
    [][(/\ Len(fs'.results) = Len(fs.results) + 1
        /\ fs'.results[Len(fs'.results)] = NoPath
        /\ Exists(fs.files, 0))
       => (Exists(fs'.files, 0) /\ fs'.files[0] = fs.files[0])]_vars

\* C13 (Terminal statuses): the stored status of an entry that is not active
\* and is Error, Paused or Complete changes only by a start, which makes it
\* Connecting.
C13_TerminalUntilStart ==
    [][(~active /\ dbEntry.status \in {"Error", "Paused", "Complete"}
          /\ dbEntry'.status # dbEntry.status)
         => dbEntry'.status = "Connecting"]_vars

====
